---- MODULE Spec2Model ----
(***************************************************************************)
(* Model of the Cisco Secure Access Terraform provider: the resource       *)
(* handlers (Create / Read / Update / Delete), the retry loops around the  *)
(* REST calls, and the remote objects those calls act on.                  *)
(*                                                                         *)
(* The provider itself is stateless: Terraform hands every handler the     *)
(* plan and the prior state, and stores the state the handler returns.     *)
(* A behaviour manages one resource of one kind; a handler runs from       *)
(* "idle" to "done", one step per REST request it makes, and Return hands  *)
(* the response back to Terraform.                                         *)
(***************************************************************************)
EXTENDS Integers, Sequences, FiniteSets, TLC

VARIABLES
    kind,      \* the kind of resource this behaviour manages
    tfstate,   \* the state Terraform holds for the resource (Absent: none)
    remote,    \* the object held by the remote service (Absent: none)
    pc,        \* position of the running handler: "idle", a step label, "done"
    op,        \* the handler that is running or has just finished
    plan,      \* the plan given to that handler
    loc,       \* the handler's local variables
    calls,     \* the REST requests the handler has made, with their responses
    resp,      \* the handler's response: state, error diagnostic, crash
    nops       \* handlers run so far in this behaviour

vars == <<kind, tfstate, remote, pc, op, plan, loc, calls, resp, nops>>

----------------------------------------------------------------------------
(* Bounds of the model. *)

\* Handlers run per behaviour.
MaxOps == 3

----------------------------------------------------------------------------
(* Values of the plugin framework: null, unknown and known attribute values. *)

Absent == [absent |-> TRUE]

NullStr == [k |-> "null", v |-> ""]
NullInt == [k |-> "null", v |-> 0]
NullSet == [k |-> "null", v |-> {}]
NullBool == [k |-> "null", v |-> FALSE]
UnknownInt == [k |-> "unknown", v |-> 0]
UnknownBool == [k |-> "unknown", v |-> FALSE]
Known(x) == [k |-> "known", v |-> x]

\* attr.Value.Equal: same null/unknown/known state and, when known, same value.
ValueEqual(a, b) == a.k = b.k /\ (a.k = "known" => a.v = b.v)

\* SetValueFrom of a Go slice: a nil slice gives a null set.
SetValueFrom(s) == IF s = {} THEN NullSet ELSE Known(s)

----------------------------------------------------------------------------
(* The REST client.  A response is the *http.Response (status 0: nil, no   *)
(* response at all), the error the generated client returned with it, and  *)
(* what the handlers look for in the body.  The generated client returns   *)
(* a nil error only for a 2xx response it could decode.                    *)

OkResponse == [status |-> 200, err |-> FALSE, body |-> "ok"]

ErrorResponses ==
    { [status |-> 0,   err |-> TRUE, body |-> "none"],
      [status |-> 200, err |-> TRUE, body |-> "undecodable"],
      [status |-> 400, err |-> TRUE, body |-> "other"],
      [status |-> 404, err |-> TRUE, body |-> "not_found"],
      [status |-> 409, err |-> TRUE, body |-> "other"],
      [status |-> 429, err |-> TRUE, body |-> "other"],
      [status |-> 500, err |-> TRUE, body |-> "other"] }

Responses == {OkResponse} \cup ErrorResponses

NoResponse(r) == r.status = 0

Call(api, req, r) == [api |-> api, req |-> req, rsp |-> r]

NoResp == [state |-> Absent, err |-> FALSE, panic |-> FALSE]

\* resp.Diagnostics.AddError
AddError(rs) == [rs EXCEPT !.err = TRUE]

----------------------------------------------------------------------------
(* retry.Do of avast/retry-go as the handlers use it: the function is      *)
(* called up to `attempts` times; nil ends the loop, an error wrapped in   *)
(* retry.Unrecoverable ends it, any other error is retried while attempts  *)
(* remain.  An attempt's outcome is "ok", "retry" or "fatal".              *)

\* A loop that allows one attempt more than its limit.
RetryContinues_OneMore(outcome, n, attempts) == outcome = "retry" /\ n <= attempts

RetryContinues(outcome, n, attempts) == outcome = "retry" /\ n < attempts

\* what retry.Do returns once the loop has ended: TRUE for a non-nil error
RetryFailed(outcome) == outcome # "ok"

----------------------------------------------------------------------------
(* Access policy (ciscosecureaccess_access_policy). *)

DIRECTORY_USERS_TYPE_ID == 7
NETWORKS_TYPE_ID == 40
DIRECTORY_USERS == "directory_users"
NETWORKS == "networks"
PRIVATE_APPS_SCHEMA == "private_apps"
PRIVATE_APPS_TYPE == "apps"
PUBLIC_INTERNET_SCHEMA == "internet"

SETTING_LOG_LEVEL == "umbrella.logLevel"
SETTING_POSTURE_CLIENTBASED == "umbrella.posture.profileId.clientbased"
SETTING_DEFAULT_TRAFFIC == "umbrella.default.traffic"

Cond(attr, val, oper) == [attr |-> attr, val |-> val, oper |-> oper]
Setting(name, val) == [name |-> name, val |-> val]

\* ids and priorities the service hands out to a rule created without one
ServerRuleIds == {11, 12}
ServerPriorities == {1, 2}

\* A builder that knows the directory_users type only.
buildSourceConditions_UsersOnly(p) ==
    LET sourceIds == p.source_ids.v
        sourceTypes == { DIRECTORY_USERS_TYPE_ID :
                         t \in p.source_types.v \cap {DIRECTORY_USERS} }
    IN  (IF sourceIds # {}
           THEN <<Cond("umbrella.source.identity_ids", sourceIds, "INTERSECT")>>
           ELSE <<>>)
        \o
        (IF sourceTypes # {}
           THEN <<Cond("umbrella.source.identity_type_ids", sourceTypes, "INTERSECT")>>
           ELSE <<>>)

buildSourceConditions(p) ==
    LET sourceIds == p.source_ids.v
        sourceTypes == { IF t = DIRECTORY_USERS THEN DIRECTORY_USERS_TYPE_ID
                         ELSE NETWORKS_TYPE_ID :
                         t \in p.source_types.v \cap {DIRECTORY_USERS, NETWORKS} }
    IN  (IF sourceIds # {}
           THEN <<Cond("umbrella.source.identity_ids", sourceIds, "INTERSECT")>>
           ELSE <<>>)
        \o
        (IF sourceTypes # {}
           THEN <<Cond("umbrella.source.identity_type_ids", sourceTypes, "INTERSECT")>>
           ELSE <<>>)

buildDestinationConditions(p) ==
    LET privateResourceIds == p.private_resource_ids.v
        destinationListIds == p.destination_list_ids.v
        privateTypes == { PRIVATE_APPS_TYPE :
                          t \in p.private_destination_types.v \cap {PRIVATE_APPS_SCHEMA} }
    IN  (IF privateResourceIds # {}
           THEN <<Cond("umbrella.destination.private_resource_ids", privateResourceIds, "IN")>>
           ELSE <<>>)
        \o
        (IF destinationListIds # {}
           THEN <<Cond("umbrella.destination.destination_list_ids", destinationListIds, "INTERSECT")>>
           ELSE <<>>)
        \o
        (IF privateTypes # {}
           THEN <<Cond("umbrella.destination.private_resource_types", privateTypes, "INTERSECT")>>
           ELSE <<>>)
        \o
        (IF PUBLIC_INTERNET_SCHEMA \in p.public_destination_types.v
           THEN <<Cond("umbrella.destination.all", TRUE, "=")>>
           ELSE <<>>)

buildRuleSettings(p) ==
    <<Setting(SETTING_LOG_LEVEL, p.log_level)>>
    \o
    (IF p.client_posture_profile_id.k # "null"
       THEN <<Setting(SETTING_POSTURE_CLIENTBASED, p.client_posture_profile_id.v)>>
       ELSE <<>>)
    \o
    <<Setting(SETTING_DEFAULT_TRAFFIC, p.traffic_type)>>

\* The AddRuleRequest built from a plan.  rulePriority is an optional field:
\* null here is the nil pointer of a request that carries no priority.
formatCreateAccessPolicyRequest(p) ==
    [ ruleName        |-> p.name,
      ruleAction      |-> p.action,
      ruleConditions  |-> buildSourceConditions(p) \o buildDestinationConditions(p),
      ruleSettings    |-> buildRuleSettings(p),
      ruleDescription |-> p.description.v,
      ruleIsEnabled   |-> p.enabled,
      rulePriority    |-> IF p.priority.v # 0 THEN Known(p.priority.v) ELSE NullInt ]

\* rules.NewPutRuleRequest(name, action, priority, conditions, settings)
NewPutRuleRequest(baseline) ==
    [ ruleName       |-> baseline.ruleName,
      ruleAction     |-> baseline.ruleAction,
      rulePriority   |-> baseline.rulePriority.v,
      ruleConditions |-> baseline.ruleConditions,
      ruleSettings   |-> baseline.ruleSettings ]

hasChanges(p, s) ==
    \/ p.name # s.name
    \/ ~ValueEqual(p.description, s.description)
    \/ p.enabled # s.enabled
    \/ ~ValueEqual(p.priority, s.priority)
    \/ ~ValueEqual(p.source_ids, s.source_ids)
    \/ ~ValueEqual(p.source_types, s.source_types)
    \/ ~ValueEqual(p.private_destination_types, s.private_destination_types)
    \/ ~ValueEqual(p.public_destination_types, s.public_destination_types)
    \/ ~ValueEqual(p.private_resource_ids, s.private_resource_ids)
    \/ ~ValueEqual(p.destination_list_ids, s.destination_list_ids)
    \/ p.log_level # s.log_level
    \/ ~ValueEqual(p.client_posture_profile_id, s.client_posture_profile_id)
    \/ p.traffic_type # s.traffic_type

\* The remote rule the service holds after a successful AddRule.
APRuleCreated(req, id, prio) ==
    [ ruleId          |-> id,
      ruleName        |-> req.ruleName,
      ruleAction      |-> req.ruleAction,
      ruleDescription |-> req.ruleDescription,
      ruleIsEnabled   |-> req.ruleIsEnabled,
      rulePriority    |-> IF req.rulePriority.k = "known" THEN req.rulePriority.v ELSE prio,
      ruleConditions  |-> req.ruleConditions,
      ruleSettings    |-> req.ruleSettings ]

\* The remote rule after a successful PutRule: the fields the request carries
\* are replaced, the others are left as they were.
APRulePut(rule, req) ==
    [ rule EXCEPT !.ruleName = req.ruleName,
                  !.ruleAction = req.ruleAction,
                  !.rulePriority = req.rulePriority,
                  !.ruleConditions = req.ruleConditions,
                  !.ruleSettings = req.ruleSettings ]

\* A plan for Create with the attributes every configuration of the
\* acceptance tests gives; what a configuration leaves out is null, or unknown
\* where the attribute is computed.
APBasePlan(name, action, enabled, logLevel, sourceTypes, privTypes, pubTypes) ==
    [ id                        |-> UnknownInt,
      name                      |-> name,
      action                    |-> action,
      private_resource_ids      |-> NullSet,
      destination_list_ids      |-> NullSet,
      description               |-> Known("d1"),
      enabled                   |-> enabled,
      log_level                 |-> logLevel,
      priority                  |-> UnknownInt,
      client_posture_profile_id |-> NullInt,
      source_ids                |-> NullSet,
      source_types              |-> sourceTypes,
      private_destination_types |-> privTypes,
      public_destination_types  |-> pubTypes,
      traffic_type              |-> "PRIVATE_NETWORK" ]

\* Plans for Create: the configurations of the acceptance tests, the two of
\* the examples (sources and destinations given by id, the second for
\* PUBLIC_INTERNET traffic), the first example with a priority configured and
\* the first test configuration with a posture profile configured.
APCreatePlans ==
    { APBasePlan("n1", "allow", TRUE, "LOG_ALL", Known({NETWORKS}),
                 Known({PRIVATE_APPS_SCHEMA}), NullSet),
      APBasePlan("n1", "allow", TRUE, "LOG_ALL", Known({DIRECTORY_USERS}),
                 NullSet, Known({PUBLIC_INTERNET_SCHEMA})),
      APBasePlan("n1", "block", FALSE, "LOG_SECURITY", Known({NETWORKS}),
                 Known({PRIVATE_APPS_SCHEMA}), NullSet),
      APBasePlan("n1", "allow", TRUE, "LOG_ALL", Known({DIRECTORY_USERS, NETWORKS}),
                 Known({PRIVATE_APPS_SCHEMA}), NullSet),
      [ APBasePlan("n1", "allow", TRUE, "LOG_ALL", NullSet, NullSet, NullSet)
          EXCEPT !.source_ids = Known({101}),
                 !.private_resource_ids = Known({201}) ],
      [ APBasePlan("n1", "allow", TRUE, "LOG_ALL", NullSet, NullSet, NullSet)
          EXCEPT !.source_ids = Known({101}),
                 !.destination_list_ids = Known({301}),
                 !.traffic_type = "PUBLIC_INTERNET" ],
      [ APBasePlan("n1", "allow", TRUE, "LOG_ALL", NullSet, NullSet, NullSet)
          EXCEPT !.source_ids = Known({101}),
                 !.private_resource_ids = Known({201}),
                 !.priority = Known(2) ],
      [ APBasePlan("n1", "allow", TRUE, "LOG_ALL", Known({NETWORKS}),
                   Known({PRIVATE_APPS_SCHEMA}), NullSet)
          EXCEPT !.client_posture_profile_id = Known(5) ] }

\* The schema's validators: AtLeastOneOf and ConflictsWith.
APValid(p) ==
    LET set(a) == a.k # "null" IN
    /\ set(p.source_types) \/ set(p.source_ids)
    /\ \/ set(p.private_resource_ids) \/ set(p.destination_list_ids)
       \/ set(p.private_destination_types) \/ set(p.public_destination_types)
    /\ ~(set(p.private_resource_ids) /\ set(p.destination_list_ids))
    /\ ~(set(p.private_destination_types) /\ set(p.destination_list_ids))
    /\ ~(set(p.private_destination_types) /\ set(p.public_destination_types))
    /\ ~(set(p.public_destination_types) /\ set(p.private_resource_ids))

\* Plans for Update: the prior state with one attribute configured anew
\* (or none: the plan equal to the state).
APChanged(s) ==
    {s}
    \cup { [s EXCEPT !.name = v] : v \in {"n1", "n2"} }
    \cup { [s EXCEPT !.action = v] : v \in {"allow", "block"} }
    \cup { [s EXCEPT !.description = v] : v \in {NullStr, Known("d1"), Known("d2")} }
    \cup { [s EXCEPT !.enabled = v] : v \in BOOLEAN }
    \cup { [s EXCEPT !.priority = v] : v \in {Known(0), Known(1), Known(2)} }
    \cup { [s EXCEPT !.log_level = v] : v \in {"LOG_ALL", "LOG_SECURITY"} }
    \cup { [s EXCEPT !.client_posture_profile_id = v] : v \in {NullInt, Known(5)} }
    \cup { [s EXCEPT !.traffic_type = v] : v \in {"PRIVATE_NETWORK", "PUBLIC_INTERNET"} }
    \cup { [s EXCEPT !.source_ids = v] : v \in {NullSet, Known({101})} }
    \cup { [s EXCEPT !.source_types = v] :
             v \in {NullSet, Known({DIRECTORY_USERS}), Known({NETWORKS}),
                    Known({DIRECTORY_USERS, NETWORKS})} }
    \cup { [s EXCEPT !.private_resource_ids = v] : v \in {NullSet, Known({201})} }
    \cup { [s EXCEPT !.destination_list_ids = v] : v \in {NullSet, Known({301})} }
    \cup { [s EXCEPT !.private_destination_types = v] :
             v \in {NullSet, Known({PRIVATE_APPS_SCHEMA})} }
    \cup { [s EXCEPT !.public_destination_types = v] :
             v \in {NullSet, Known({PUBLIC_INTERNET_SCHEMA})} }

APUpdatePlans(s) == { p \in APChanged(s) : APValid(p) }

\* The request names sources or destinations by id.
CarriesIds(req) ==
    \E i \in 1..Len(req.ruleConditions) :
       req.ruleConditions[i].attr \in
         { "umbrella.source.identity_ids",
           "umbrella.destination.private_resource_ids",
           "umbrella.destination.destination_list_ids" }

\* The answers to AddRule.  To a request that names sources or destinations
\* by id the service may also answer 400 with a body that says the ids are
\* not valid (yet); a request without ids gets no such answer.
AddRuleResponses(req) ==
    Responses \cup
    (IF CarriesIds(req)
       THEN { [status |-> 400, err |-> TRUE, body |-> "invalid_ids"] }
       ELSE {})

\* A Create that gives up on 409.
APCreateOutcome_ConflictFatal(r) ==
    IF ~r.err THEN "ok"
    ELSE IF ~NoResponse(r) /\ r.status = 400 /\ r.body = "invalid_ids"
         THEN "retry"
         ELSE "fatal"

\* How one AddRule attempt of Create ends.
APCreateOutcome(r) ==
    IF ~r.err THEN "ok"
    ELSE IF ~NoResponse(r)
            /\ ((r.status = 400 /\ r.body = "invalid_ids") \/ r.status = 409)
         THEN "retry"
         ELSE "fatal"

APCreateAttempts == 6

APCreateStart ==
    /\ pc = "idle" /\ kind = "access_policy" /\ tfstate = Absent /\ nops < MaxOps
    /\ \E p \in APCreatePlans : plan' = p
    /\ op' = "ap_create"
    /\ pc' = "ap_create_try"
    /\ loc' = [attempts |-> 0]
    /\ calls' = <<>>
    /\ resp' = NoResp
    /\ UNCHANGED <<kind, tfstate, remote, nops>>

APCreateAttempt ==
    /\ pc = "ap_create_try"
    /\ \E r \in AddRuleResponses(formatCreateAccessPolicyRequest(plan)),
          id \in ServerRuleIds, prio \in ServerPriorities :
         LET req == formatCreateAccessPolicyRequest(plan)
             out == APCreateOutcome(r)
             n == loc.attempts + 1
             rule == APRuleCreated(req, id, prio)
             rs1 == IF out = "ok"
                      THEN [resp EXCEPT !.state =
                              [plan EXCEPT !.priority = Known(rule.rulePriority),
                                           !.id = Known(rule.ruleId)]]
                      ELSE IF out = "fatal" THEN AddError(resp) ELSE resp
             again == RetryContinues(out, n, APCreateAttempts)
         IN  /\ (r.err => id = 11 /\ prio = 1)
             /\ calls' = Append(calls, Call("AddRule", req, r))
             /\ remote' = IF out = "ok" THEN rule ELSE remote
             /\ loc' = [attempts |-> n]
             /\ pc' = IF again THEN "ap_create_try" ELSE "done"
             /\ resp' = IF ~again /\ RetryFailed(out) THEN AddError(rs1) ELSE rs1
    /\ UNCHANGED <<kind, tfstate, op, plan, nops>>

\* The state Read computes from the rule the service returned.
APReadState(s, rule) ==
    LET conds == rule.ruleConditions
        has(a) == \E i \in 1..Len(conds) : conds[i].attr = a
        \* the loop assigns in order, so the last matching condition wins
        val(a) == conds[CHOOSE i \in 1..Len(conds) :
                          /\ conds[i].attr = a
                          /\ \A j \in (i+1)..Len(conds) : conds[j].attr # a].val
        sets == rule.ruleSettings
        hasS(a) == \E i \in 1..Len(sets) : sets[i].name = a
        valS(a) == sets[CHOOSE i \in 1..Len(sets) :
                          /\ sets[i].name = a
                          /\ \A j \in (i+1)..Len(sets) : sets[j].name # a].val
    IN  [ s EXCEPT
          !.private_resource_ids =
              IF has("umbrella.destination.private_resource_ids")
                THEN SetValueFrom(val("umbrella.destination.private_resource_ids")) ELSE @,
          !.destination_list_ids =
              IF has("umbrella.destination.destination_list_ids")
                THEN SetValueFrom(val("umbrella.destination.destination_list_ids")) ELSE @,
          !.private_destination_types =
              IF has("umbrella.destination.private_resource_types")
                THEN SetValueFrom({ PRIVATE_APPS_SCHEMA :
                        t \in val("umbrella.destination.private_resource_types")
                              \cap {PRIVATE_APPS_TYPE} })
                ELSE @,
          !.public_destination_types =
              IF has("umbrella.destination.all") /\ val("umbrella.destination.all") = TRUE
                THEN Known({PUBLIC_INTERNET_SCHEMA}) ELSE @,
          !.source_types =
              IF has("umbrella.source.identity_type_ids")
                THEN SetValueFrom({ IF t = DIRECTORY_USERS_TYPE_ID THEN DIRECTORY_USERS
                                    ELSE NETWORKS :
                        t \in val("umbrella.source.identity_type_ids")
                              \cap {DIRECTORY_USERS_TYPE_ID, NETWORKS_TYPE_ID} })
                ELSE @,
          !.source_ids =
              IF has("umbrella.source.identity_ids")
                THEN SetValueFrom(val("umbrella.source.identity_ids")) ELSE @,
          !.log_level = IF hasS(SETTING_LOG_LEVEL) THEN valS(SETTING_LOG_LEVEL) ELSE @,
          !.client_posture_profile_id =
              IF hasS(SETTING_POSTURE_CLIENTBASED)
                THEN Known(valS(SETTING_POSTURE_CLIENTBASED)) ELSE @,
          !.traffic_type =
              IF hasS(SETTING_DEFAULT_TRAFFIC) THEN valS(SETTING_DEFAULT_TRAFFIC) ELSE @,
          !.name = rule.ruleName,
          !.action = rule.ruleAction,
          !.description = Known(rule.ruleDescription),
          !.enabled = rule.ruleIsEnabled,
          !.priority = Known(rule.rulePriority) ]

\* A response a GET can give: success needs the object to exist.
GetResponses == IF remote = Absent THEN ErrorResponses ELSE Responses

APRead ==
    /\ pc = "idle" /\ kind = "access_policy" /\ tfstate # Absent /\ nops < MaxOps
    /\ \E r \in GetResponses :
         /\ calls' = <<Call("GetRule", tfstate.id.v, r)>>
         /\ resp' = IF ~NoResponse(r) /\ r.status = 404
                      THEN [NoResp EXCEPT !.state = Absent]
                    ELSE IF r.err
                      THEN AddError([NoResp EXCEPT !.state = tfstate])
                    ELSE [NoResp EXCEPT !.state = APReadState(tfstate, remote)]
    /\ op' = "ap_read"
    /\ plan' = Absent
    /\ loc' = [attempts |-> 1]
    /\ pc' = "done"
    /\ UNCHANGED <<kind, tfstate, remote, nops>>

APUpdate ==
    /\ pc = "idle" /\ kind = "access_policy" /\ tfstate # Absent /\ nops < MaxOps
    /\ \E p \in APUpdatePlans(tfstate), r \in Responses :
         LET baseline == formatCreateAccessPolicyRequest(p)
             changed == hasChanges(p, tfstate)
             \* *baseline.RulePriority of a request that carries no priority
             crash == changed /\ baseline.rulePriority.k = "null"
             sent == changed /\ ~crash
             payload == NewPutRuleRequest(baseline)
         IN  /\ plan' = p
             /\ (~sent => r = OkResponse)
             /\ (remote = Absent => r.err)
             /\ calls' = IF sent THEN <<Call("PutRule", payload, r)>> ELSE <<>>
             /\ remote' = IF sent /\ ~r.err THEN APRulePut(remote, payload) ELSE remote
             /\ resp' = IF crash THEN [NoResp EXCEPT !.state = tfstate, !.panic = TRUE]
                        ELSE IF sent /\ r.err
                          THEN AddError([NoResp EXCEPT !.state = tfstate])
                        ELSE [NoResp EXCEPT !.state = p]
    /\ op' = "ap_update"
    /\ loc' = [attempts |-> 1]
    /\ pc' = "done"
    /\ UNCHANGED <<kind, tfstate, nops>>

\* Delete as it would be if it also retried a rate-limited request.
APDeleteOutcome_Retries429(r) ==
    IF ~NoResponse(r) /\ r.status = 404 THEN "ok"
    ELSE IF r.err /\ ~NoResponse(r) /\ r.status \in {409, 429} THEN "retry"
    ELSE IF r.err THEN "fatal"
    ELSE "ok"

\* How one DeleteRule attempt of Delete ends.
APDeleteOutcome(r) ==
    IF ~NoResponse(r) /\ r.status = 404 THEN "ok"
    ELSE IF r.err /\ ~NoResponse(r) /\ r.status = 409 THEN "retry"
    ELSE IF r.err THEN "fatal"
    ELSE "ok"

APDeleteAttempts == 3

APDeleteStart ==
    /\ pc = "idle" /\ kind = "access_policy" /\ tfstate # Absent /\ nops < MaxOps
    /\ op' = "ap_delete"
    /\ plan' = Absent
    /\ pc' = "ap_delete_try"
    /\ loc' = [attempts |-> 0]
    /\ calls' = <<>>
    /\ resp' = [NoResp EXCEPT !.state = tfstate]
    /\ UNCHANGED <<kind, tfstate, remote, nops>>

APDeleteAttempt ==
    /\ pc = "ap_delete_try"
    /\ \E r \in Responses :
         LET out == APDeleteOutcome(r)
             n == loc.attempts + 1
             again == RetryContinues(out, n, APDeleteAttempts)
         IN  /\ (remote = Absent => r.err)
             /\ calls' = Append(calls, Call("DeleteRule", tfstate.id.v, r))
             /\ remote' = IF ~r.err THEN Absent ELSE remote
             /\ loc' = [attempts |-> n]
             /\ pc' = IF again THEN "ap_delete_try" ELSE "done"
             /\ resp' = IF ~again /\ RetryFailed(out) THEN AddError(resp) ELSE resp
    /\ UNCHANGED <<kind, tfstate, op, plan, nops>>

----------------------------------------------------------------------------
(* Network tunnel group (ciscosecureaccess_network_tunnel_group). *)

\* Longest network_cidrs list of a plan.
MaxCidrs == 2

Cidrs == {"10.0.0.0/24", "10.0.1.0/24"}

RECURSIVE SeqsUpTo(_, _)
SeqsUpTo(S, n) ==
    IF n = 0 THEN {<<>>}
    ELSE LET shorter == SeqsUpTo(S, n - 1)
         IN  shorter \cup { Append(q, x) : q \in shorter, x \in S }

CidrLists == SeqsUpTo(Cidrs, MaxCidrs)

\* ntg.NewDeviceTypeFromValue accepts the values of the DeviceType enum;
\* "other" is the value the acceptance tests and the example configure.
DeviceTypes == {"ASA", "FTD", "other"}

\* the hubs the service attaches to a tunnel group
ServerHubs == <<[id |-> 1, is_primary |-> TRUE], [id |-> 2, is_primary |-> FALSE]>>

ServerNTGIds == {21}

compareStringSlicesAsSets(a, b) ==
    IF Len(a) # Len(b) THEN FALSE
    ELSE \A i \in 1..Len(a) : \E j \in 1..Len(b) : a[i] = b[j]

NTGPlan(name, cidrs, key, device) ==
    [ id                |-> UnknownInt,
      network_cidrs     |-> cidrs,
      name              |-> name,
      region            |-> "us-east-1",
      identifier_prefix |-> "tfacc",
      preshared_key     |-> key,
      device_type       |-> device,
      hubs              |-> <<>> ]

\* device_type is a free string in the schema: a plan may hold one the enum
\* does not have.
NTGCreatePlans ==
    { NTGPlan("n1", cidrs, "key1", "other") : cidrs \in CidrLists }
    \cup { NTGPlan("n1", <<>>, "key1", "no-such-device") }

\* Update receives the configured attributes that do not force replacement;
\* id and hubs come from the prior state.
NTGUpdatePlans(s) ==
    { [s EXCEPT !.name = n, !.network_cidrs = c, !.preshared_key = k, !.device_type = d] :
        n \in {"n1", "n2"}, c \in CidrLists, k \in {"key1", "key2"},
        d \in {"other", "ASA"} }

NTGCreate ==
    /\ pc = "idle" /\ kind = "ntg" /\ tfstate = Absent /\ nops < MaxOps
    /\ \E p \in NTGCreatePlans, r \in Responses, id \in ServerNTGIds :
         LET req == [ name         |-> p.name,
                      region       |-> p.region,
                      authIdPrefix |-> p.identifier_prefix,
                      passphrase   |-> p.preshared_key,
                      routing      |-> p.network_cidrs,
                      deviceType   |-> p.device_type ]
             valid == p.device_type \in DeviceTypes
             created == [ id         |-> id,
                          name       |-> req.name,
                          region     |-> req.region,
                          passphrase |-> req.passphrase,
                          routing    |-> req.routing,
                          deviceType |-> req.deviceType,
                          hubs       |-> ServerHubs ]
         IN  /\ plan' = p
             /\ (~valid => r = OkResponse)
             /\ calls' = IF valid THEN <<Call("AddNetworkTunnelGroup", req, r)>> ELSE <<>>
             /\ remote' = IF valid /\ ~r.err THEN created ELSE remote
             /\ resp' = IF ~valid \/ r.err THEN AddError(NoResp)
                        ELSE [NoResp EXCEPT !.state =
                                [p EXCEPT !.id = Known(id), !.hubs = created.hubs]]
    /\ op' = "ntg_create"
    /\ loc' = [attempts |-> 1]
    /\ pc' = "done"
    /\ UNCHANGED <<kind, tfstate, nops>>

NTGRead ==
    /\ pc = "idle" /\ kind = "ntg" /\ tfstate # Absent /\ nops < MaxOps
    /\ \E r \in GetResponses :
         /\ calls' = <<Call("GetNetworkTunnelGroup", tfstate.id.v, r)>>
         /\ resp' = IF ~NoResponse(r) /\ r.status = 404
                      THEN [NoResp EXCEPT !.state = Absent]
                    ELSE IF r.err
                      THEN AddError([NoResp EXCEPT !.state = tfstate])
                    ELSE [NoResp EXCEPT !.state =
                            [tfstate EXCEPT !.name = remote.name,
                                            !.region = remote.region,
                                            !.network_cidrs = remote.routing,
                                            !.device_type = remote.deviceType,
                                            !.hubs = remote.hubs]]
    /\ op' = "ntg_read"
    /\ plan' = Absent
    /\ loc' = [attempts |-> 1]
    /\ pc' = "done"
    /\ UNCHANGED <<kind, tfstate, remote, nops>>

Patch(path, value) == [op |-> "replace", path |-> path, value |-> value]

\* The JSON-patch operations Update collects, in the order it appends them.
NTGPatchInners(p, s) ==
    (IF p.name # s.name THEN <<Patch("/name", p.name)>> ELSE <<>>)
    \o
    (IF p.preshared_key # s.preshared_key
       THEN <<Patch("/passphrase", p.preshared_key)>> ELSE <<>>)
    \o
    (IF ~compareStringSlicesAsSets(s.network_cidrs, p.network_cidrs)
       THEN <<Patch("/routing", p.network_cidrs)>> ELSE <<>>)

\* The state Update writes: the prior state with the planned name, CIDRs and key.
NTGUpdatedState(p, s) ==
    [s EXCEPT !.name = p.name,
              !.network_cidrs = p.network_cidrs,
              !.preshared_key = p.preshared_key]

RECURSIVE NTGPatched(_, _)
NTGPatched(obj, patches) ==
    IF patches = <<>> THEN obj
    ELSE LET h == Head(patches)
             o2 == IF h.path = "/name" THEN [obj EXCEPT !.name = h.value]
                   ELSE IF h.path = "/passphrase" THEN [obj EXCEPT !.passphrase = h.value]
                   ELSE [obj EXCEPT !.routing = h.value]
         IN  NTGPatched(o2, Tail(patches))

NTGUpdate ==
    /\ pc = "idle" /\ kind = "ntg" /\ tfstate # Absent /\ nops < MaxOps
    /\ \E p \in NTGUpdatePlans(tfstate), r \in Responses :
         LET patchInners == NTGPatchInners(p, tfstate)
             sent == Len(patchInners) > 0
         IN  /\ plan' = p
             /\ (~sent => r = OkResponse)
             /\ (remote = Absent => r.err)
             /\ calls' = IF sent THEN <<Call("PatchNetworkTunnelGroup", patchInners, r)>>
                         ELSE <<>>
             /\ remote' = IF sent /\ ~r.err THEN NTGPatched(remote, patchInners) ELSE remote
             /\ resp' = IF sent /\ r.err
                          THEN AddError([NoResp EXCEPT !.state = tfstate])
                        ELSE [NoResp EXCEPT !.state = NTGUpdatedState(p, tfstate)]
    /\ op' = "ntg_update"
    /\ loc' = [attempts |-> 1]
    /\ pc' = "done"
    /\ UNCHANGED <<kind, tfstate, nops>>

\* Delete as it would be if it looked at the error before the status.
NTGDeleteFails_ErrorFirst(r) == r.err

\* Whether Delete reports an error for the response of its DeleteNetworkTunnelGroup.
NTGDeleteFails(r) ==
    IF ~NoResponse(r) /\ r.status = 404 THEN FALSE ELSE r.err

NTGDelete ==
    /\ pc = "idle" /\ kind = "ntg" /\ tfstate # Absent /\ nops < MaxOps
    /\ \E r \in Responses :
         /\ (remote = Absent => r.err)
         /\ calls' = <<Call("DeleteNetworkTunnelGroup", tfstate.id.v, r)>>
         /\ remote' = IF ~r.err THEN Absent ELSE remote
         /\ resp' = IF NTGDeleteFails(r)
                      THEN AddError([NoResp EXCEPT !.state = tfstate])
                    ELSE [NoResp EXCEPT !.state = tfstate]
    /\ op' = "ntg_delete"
    /\ plan' = Absent
    /\ loc' = [attempts |-> 1]
    /\ pc' = "done"
    /\ UNCHANGED <<kind, tfstate, nops>>

----------------------------------------------------------------------------
(* Private resource (ciscosecureaccess_private_resource). *)

accessTypeClient == "client"
accessTypeNetwork == "network"

\* strconv.Itoa: the decimal digits of n, most significant first.
Digits == <<"0", "1", "2", "3", "4", "5", "6", "7", "8", "9">>

RECURSIVE Itoa(_)
Itoa(n) ==
    IF n < 0 THEN <<"-">> \o Itoa(0 - n)
    ELSE IF n < 10 THEN <<Digits[n + 1]>>
    ELSE Append(Itoa(n \div 10), Digits[(n % 10) + 1])

DigitValue(c) == CHOOSE d \in 0..9 : Digits[d + 1] = c

IsDigit(c) == \E d \in 0..9 : Digits[d + 1] = c

RECURSIVE AtoiDigits(_, _)
AtoiDigits(str, acc) ==
    IF str = <<>> THEN acc
    ELSE AtoiDigits(Tail(str), acc * 10 + DigitValue(Head(str)))

\* strconv.Atoi with its error dropped: 0 for a string that is no number.
Atoi(str) ==
    LET neg == str # <<>> /\ Head(str) = "-"
        body == IF str # <<>> /\ Head(str) \in {"-", "+"} THEN Tail(str) ELSE str
    IN  IF body = <<>> \/ \E i \in 1..Len(body) : ~IsDigit(body[i]) THEN 0
        ELSE IF neg THEN 0 - AtoiDigits(body, 0) ELSE AtoiDigits(body, 0)

ServerResourceIds == {31, 32}

parseAccessTypes(p) ==
    { IF t = accessTypeNetwork
        THEN [type |-> accessTypeNetwork, reachableAddresses |-> {}]
      ELSE IF t = accessTypeClient
        THEN [type |-> accessTypeClient,
              reachableAddresses |-> p.client_reachable_addresses.v]
      ELSE [type |-> "", reachableAddresses |-> {}]
      : t \in p.access_types.v }

parseAddresses(p) ==
    { [destinationAddr |-> a.addresses, protocolPorts |-> a.traffic_selector]
      : a \in p.addresses.v }

formatCreatePrivateResourceRequest(p) ==
    [ name              |-> p.name.v,
      accessTypes       |-> parseAccessTypes(p),
      resourceAddresses |-> parseAddresses(p),
      description       |-> p.description.v,
      certificateId     |-> IF p.certificate_id.k # "null"
                              THEN Known(p.certificate_id.v) ELSE NullInt ]

processReadAddresses(apiAddresses) ==
    { [addresses |-> a.destinationAddr, traffic_selector |-> a.protocolPorts]
      : a \in apiAddresses }

\* The Go type of the access-type list the generated client decodes.
ClientAccessTypesGoType == "[]privateapps.AccessTypesResponseInner"

\* The loop of processReadAccessTypes over the decoded list: an entry with
\* client-based access that holds a ReachableAddresses list stores that list
\* (made with make: a known set even when empty); any other entry leaves
\* the value as it is, so the last such entry decides.
RECURSIVE ClientReachableAfter(_, _)
ClientReachableAfter(accessTypes, cur) ==
    IF accessTypes = <<>> THEN cur
    ELSE LET access == Head(accessTypes)
             next == IF /\ access.type = accessTypeClient
                        /\ "reachableAddresses" \in DOMAIN access
                      THEN Known(access.reachableAddresses)
                      ELSE cur
         IN  ClientReachableAfter(Tail(accessTypes), next)

\* Read's type switch has the single case []interface{}; apiAccessTypes is
\* the list as the response holds it.
processReadAccessTypes(goType, apiAccessTypes, s) ==
    LET matched == goType = "[]interface{}"
        clientTypeMissing ==
            ~matched \/ \A i \in 1..Len(apiAccessTypes) :
                           apiAccessTypes[i].type # accessTypeClient
    IN  IF clientTypeMissing THEN NullSet
        ELSE ClientReachableAfter(apiAccessTypes, s.client_reachable_addresses)

PRAddressesA ==
    { [addresses |-> {"10.10.110.2/32"},
       traffic_selector |-> {[ports |-> "443", protocol |-> "http/https"],
                             [ports |-> "5443", protocol |-> "udp"]}] }

PRAddressesB ==
    { [addresses |-> {"10.10.10.3/32"},
       traffic_selector |-> {[ports |-> "443", protocol |-> "http/https"]}] }

PRPlan(name, access, client, cert) ==
    [ id                         |-> NullStr,
      name                       |-> Known(name),
      description                |-> Known("Application used for performing tests"),
      access_types               |-> Known(access),
      addresses                  |-> Known(PRAddressesA),
      client_reachable_addresses |-> client,
      certificate_id             |-> cert ]

PRCreatePlans ==
    { PRPlan("pr1", {accessTypeNetwork}, NullSet, NullInt),
      PRPlan("pr1", {accessTypeClient}, Known({"10.10.10.3"}), NullInt),
      PRPlan("pr1", {accessTypeNetwork, accessTypeClient}, Known({"10.10.10.3"}), Known(5)) }

\* Plans of Update: the prior state with at most one attribute changed.
PRUpdatePlans(s) ==
    {s}
    \cup { [s EXCEPT !.name = Known(n)] : n \in {"pr1", "pr2"} }
    \cup { [s EXCEPT !.description = d] : d \in {NullStr, Known("changed")} }
    \cup { [s EXCEPT !.access_types = Known(a)] :
             a \in {{accessTypeNetwork}, {accessTypeNetwork, accessTypeClient}} }
    \cup { [s EXCEPT !.addresses = Known(a)] : a \in {PRAddressesA, PRAddressesB} }
    \cup { [s EXCEPT !.client_reachable_addresses = c] :
             c \in {NullSet, Known({"10.10.10.3"}), Known({"10.10.10.4"})} }
    \cup { [s EXCEPT !.certificate_id = c] : c \in {NullInt, Known(5)} }

\* How one AddPrivateResource attempt of createPrivateResourceWithRetry ends.
PRCreateOutcome(r) ==
    IF ~r.err THEN "ok"
    ELSE IF NoResponse(r) THEN "panic"
    ELSE IF r.status = 409 \/ r.status = 429 THEN "retry"
    ELSE "fatal"

retryMaxAttempts == 3

PRCreateStart ==
    /\ pc = "idle" /\ kind = "private_resource" /\ tfstate = Absent /\ nops < MaxOps
    /\ \E p \in PRCreatePlans : plan' = p
    /\ op' = "pr_create"
    /\ pc' = "pr_create_try"
    /\ loc' = [attempts |-> 0]
    /\ calls' = <<>>
    /\ resp' = NoResp
    /\ UNCHANGED <<kind, tfstate, remote, nops>>

PRCreateAttempt ==
    /\ pc = "pr_create_try"
    /\ \E r \in Responses, id \in ServerResourceIds :
         LET req == formatCreatePrivateResourceRequest(plan)
             out == PRCreateOutcome(r)
             n == loc.attempts + 1
             again == RetryContinues(out, n, retryMaxAttempts)
         IN  /\ (r.err => id = 31)
             /\ calls' = Append(calls, Call("AddPrivateResource", req, r))
             /\ remote' = IF out = "ok" THEN req @@ [resourceId |-> id]
                          ELSE remote
             /\ loc' = [attempts |-> n]
             /\ pc' = IF again THEN "pr_create_try" ELSE "done"
             /\ resp' = IF out = "panic" THEN [resp EXCEPT !.panic = TRUE]
                        ELSE IF again THEN resp
                        ELSE IF RetryFailed(out) THEN AddError(resp)
                        ELSE [resp EXCEPT !.state = [plan EXCEPT !.id = Known(Itoa(id))]]
    /\ UNCHANGED <<kind, tfstate, op, plan, nops>>

\* The orders in which a response may list the access types of a resource.
AccessTypeLists(res) ==
    { q \in SeqsUpTo(res.accessTypes, Cardinality(res.accessTypes)) :
        /\ Len(q) = Cardinality(res.accessTypes)
        /\ \A a \in res.accessTypes : \E i \in 1..Len(q) : q[i] = a }

PRReadState(s, res, accessTypes) ==
    [s EXCEPT !.name = Known(res.name),
              !.description = Known(res.description),
              !.client_reachable_addresses =
                  processReadAccessTypes(ClientAccessTypesGoType, accessTypes, s),
              !.addresses = SetValueFrom(processReadAddresses(res.resourceAddresses))]

PRRead ==
    /\ pc = "idle" /\ kind = "private_resource" /\ tfstate # Absent /\ nops < MaxOps
    /\ \E r \in GetResponses,
          accessTypes \in IF remote = Absent THEN {<<>>} ELSE AccessTypeLists(remote) :
         /\ calls' = <<Call("GetPrivateResource", Atoi(tfstate.id.v), r)>>
         /\ resp' = IF NoResponse(r)
                      THEN [NoResp EXCEPT !.state = tfstate, !.panic = TRUE]
                    ELSE IF r.err /\ r.status = 404
                      THEN [NoResp EXCEPT !.state = Absent]
                    ELSE IF r.err
                      THEN AddError([NoResp EXCEPT !.state = tfstate])
                    ELSE [NoResp EXCEPT !.state = PRReadState(tfstate, remote, accessTypes)]
    /\ op' = "pr_read"
    /\ plan' = Absent
    /\ loc' = [attempts |-> 1]
    /\ pc' = "done"
    /\ UNCHANGED <<kind, tfstate, remote, nops>>

\* Update as it would be if it always sent its PUT.
hasResourceChanges_Always(p, s) == TRUE

hasResourceChanges(p, s) ==
    \/ ~ValueEqual(p.name, s.name)
    \/ ~ValueEqual(p.description, s.description)
    \/ ~ValueEqual(p.access_types, s.access_types)
    \/ ~ValueEqual(p.addresses, s.addresses)
    \/ ~ValueEqual(p.certificate_id, s.certificate_id)

PRUpdate ==
    /\ pc = "idle" /\ kind = "private_resource" /\ tfstate # Absent /\ nops < MaxOps
    /\ \E p \in PRUpdatePlans(tfstate), r \in Responses :
         LET sent == hasResourceChanges(p, tfstate)
             payload == formatCreatePrivateResourceRequest(p)
         IN  /\ plan' = p
             /\ (~sent => r = OkResponse)
             /\ (remote = Absent => r.err)
             /\ calls' = IF sent THEN <<Call("PutPrivateResource", payload, r)>> ELSE <<>>
             /\ remote' = IF sent /\ ~r.err
                            THEN payload @@ [resourceId |-> remote.resourceId]
                          ELSE remote
             /\ resp' = IF sent /\ r.err
                          THEN AddError([NoResp EXCEPT !.state = tfstate])
                        ELSE [NoResp EXCEPT !.state = p]
    /\ op' = "pr_update"
    /\ loc' = [attempts |-> 1]
    /\ pc' = "done"
    /\ UNCHANGED <<kind, tfstate, nops>>

PRDelete ==
    /\ pc = "idle" /\ kind = "private_resource" /\ tfstate # Absent /\ nops < MaxOps
    /\ \E r \in Responses :
         /\ (remote = Absent => r.err)
         /\ calls' = <<Call("DeletePrivateResource", Atoi(tfstate.id.v), r)>>
         /\ remote' = IF ~r.err THEN Absent ELSE remote
         /\ resp' = IF NoResponse(r)
                      THEN [NoResp EXCEPT !.state = tfstate, !.panic = TRUE]
                    ELSE IF r.status = 404 THEN [NoResp EXCEPT !.state = tfstate]
                    ELSE IF r.err THEN AddError([NoResp EXCEPT !.state = tfstate])
                    ELSE [NoResp EXCEPT !.state = tfstate]
    /\ op' = "pr_delete"
    /\ plan' = Absent
    /\ loc' = [attempts |-> 1]
    /\ pc' = "done"
    /\ UNCHANGED <<kind, tfstate, nops>>

----------------------------------------------------------------------------
(* Destination list (ciscosecureaccess_destination_list). *)

defaultBundleTypeID == 2

\* The destinations of the acceptance configurations, with the type the
\* service detects for each.
Destinations == {"127.0.0.2", "http://example.com/test", "foo.bar.baz"}

DetectedType(d) ==
    IF d = "127.0.0.2" THEN "ipv4"
    ELSE IF d = "http://example.com/test" THEN "url"
    ELSE "domain"

\* The service numbers the destinations of one request in this order.
DestinationRank(d) ==
    IF d = "127.0.0.2" THEN 0
    ELSE IF d = "http://example.com/test" THEN 1
    ELSE 2

ServerListId == 41

FirstDestinationId == 7

\* strconv.ParseInt(s, 10, 64)
ParseInt(str) ==
    LET body == IF str # <<>> /\ Head(str) \in {"-", "+"} THEN Tail(str) ELSE str
        ok == body # <<>> /\ \A i \in 1..Len(body) : IsDigit(body[i])
    IN  [ok |-> ok, v |-> IF ok THEN Atoi(str) ELSE 0]

\* A destination of a plan: its id is computed, so unknown until applied.
PlanDestination(d, type, comment) ==
    [id |-> [k |-> "unknown", v |-> <<>>], comment |-> comment,
     destination |-> d, type |-> type]

\* What a plan may hold for one destination: nothing, or one entry.
PlanChoices(d) ==
    IF d = "127.0.0.2"
      THEN { {},
             {PlanDestination(d, "ipv4", Known("first"))},
             {PlanDestination(d, "ipv4", Known("changed"))},
             {PlanDestination(d, "ipv4", NullStr)},
             {PlanDestination(d, "domain", Known("first"))} }
      ELSE { {}, {PlanDestination(d, DetectedType(d), Known("managed by TF"))} }

DLPlanDestinations ==
    { a \cup b \cup c : a \in PlanChoices("127.0.0.2"),
                        b \in PlanChoices("http://example.com/test"),
                        c \in PlanChoices("foo.bar.baz") }

DLCreatePlans ==
    { [id |-> UnknownInt, name |-> Known("list"), destinations |-> Known(ds)] :
        ds \in { a \cup b : a \in { {PlanDestination("127.0.0.2", "ipv4", Known("first"))} },
                            b \in PlanChoices("http://example.com/test") } }

DLUpdatePlans(s) ==
    { [id |-> s.id, name |-> Known(n), destinations |-> Known(ds)] :
        n \in {"list", "renamed"}, ds \in DLPlanDestinations }

\* The destinations the service holds after adding the requested ones.
ServerAddDestinations(list, reqs) ==
    LET IdOf(q) == list.nextId + Cardinality({ o \in reqs :
                        DestinationRank(o.destination) < DestinationRank(q.destination) })
        added == { [id |-> Itoa(IdOf(q)), destination |-> q.destination,
                    type |-> q.type, comment |-> q.comment] : q \in reqs }
    IN  [list EXCEPT !.destinations = @ \cup added,
                     !.nextId = @ + Cardinality(reqs)]

ServerDeleteDestinations(list, ids) ==
    [list EXCEPT !.destinations = { d \in @ : Atoi(d.id) \notin ids }]

\* GetDestinations: the model of every destination of the response.
GetDestinations(list) ==
    { [id |-> Known(d.id), comment |-> Known(d.comment),
       destination |-> d.destination, type |-> d.type] : d \in list.destinations }

\* How a GetDestinations call ends for the response it received.
GetDestinationsOutcome(r) ==
    IF ~r.err THEN "ok" ELSE IF NoResponse(r) THEN "panic" ELSE "error"

DLFail(rs, outcome) ==
    IF outcome = "panic" THEN [rs EXCEPT !.panic = TRUE] ELSE AddError(rs)

DLCreate ==
    /\ pc = "idle" /\ kind = "destination_list" /\ tfstate = Absent /\ nops < MaxOps
    /\ \E p \in DLCreatePlans, r \in Responses :
         LET modeledDestinations ==
                 { [destination |-> d.destination, type |-> d.type, comment |-> d.comment.v]
                   : d \in p.destinations.v }
             createRequest == [ access |-> "none", isGlobal |-> FALSE, name |-> p.name.v,
                                bundleTypeId |-> defaultBundleTypeID,
                                destinations |-> modeledDestinations ]
             empty == [id |-> ServerListId, name |-> p.name.v, destinations |-> {},
                       nextId |-> FirstDestinationId]
             ok == r = OkResponse
             crash == NoResponse(r) \/ (r.status = 200 /\ r.err)
         IN  /\ plan' = p
             /\ calls' = <<Call("CreateDestinationList", createRequest, r)>>
             /\ remote' = IF ok THEN ServerAddDestinations(empty, modeledDestinations)
                          ELSE remote
             /\ resp' = IF crash THEN [NoResp EXCEPT !.panic = TRUE]
                        ELSE IF ~ok THEN AddError(NoResp)
                        ELSE NoResp
             /\ loc' = [attempts |-> 1, plan |-> [p EXCEPT !.id = Known(ServerListId)]]
             /\ pc' = IF ok THEN "dl_create_read" ELSE "done"
    /\ op' = "dl_create"
    /\ UNCHANGED <<kind, tfstate, nops>>

\* plan.UpdateDestinations at the end of Create
DLCreateRead ==
    /\ pc = "dl_create_read"
    /\ \E r \in Responses :
         LET out == GetDestinationsOutcome(r)
         IN  /\ calls' = Append(calls, Call("GetDestinations", loc.plan.id.v, r))
             /\ resp' = IF out = "ok"
                          THEN [resp EXCEPT !.state =
                                  [loc.plan EXCEPT !.destinations = Known(GetDestinations(remote))]]
                        ELSE DLFail(resp, out)
    /\ pc' = "done"
    /\ UNCHANGED <<kind, tfstate, remote, op, plan, loc, nops>>

\* The marker Read looks for in the body of a failed GetDestinationList.
destinationListNotFoundError == "\"statusCode\":404,\"error\":\"Not Found\""

\* strings.Contains(body, substr): substr occurs somewhere in body.
Contains(body, substr) ==
    \E i \in 0..(Len(body) - Len(substr)) :
       SubSeq(body, i + 1, i + Len(substr)) = substr

\* The "not found" answer of the destination lists API: a JSON object that
\* holds the marker, under status 200 or 404.
DLNotFoundBody == "{" \o destinationListNotFoundError \o "}"

DLReadResponses ==
    GetResponses
    \cup { [status |-> 200, err |-> TRUE, body |-> DLNotFoundBody],
           [status |-> 404, err |-> TRUE, body |-> DLNotFoundBody] }

DLRead ==
    /\ pc = "idle" /\ kind = "destination_list" /\ tfstate # Absent /\ nops < MaxOps
    /\ \E r \in DLReadResponses :
         /\ calls' = <<Call("GetDestinationList", tfstate.id.v, r)>>
         /\ resp' = IF ~r.err THEN [NoResp EXCEPT !.state = tfstate]
                    ELSE IF NoResponse(r)
                      THEN [NoResp EXCEPT !.state = tfstate, !.panic = TRUE]
                    ELSE IF Contains(r.body, destinationListNotFoundError)
                      THEN [NoResp EXCEPT !.state = Absent]
                    ELSE AddError([NoResp EXCEPT !.state = tfstate])
         /\ loc' = [attempts |-> 1,
                    data |-> IF r.err THEN tfstate
                             ELSE [tfstate EXCEPT !.name = Known(remote.name)]]
         /\ pc' = IF r.err THEN "done" ELSE "dl_read_destinations"
    /\ op' = "dl_read"
    /\ plan' = Absent
    /\ UNCHANGED <<kind, tfstate, remote, nops>>

\* data.UpdateDestinations at the end of Read
DLReadDestinations ==
    /\ pc = "dl_read_destinations"
    /\ \E r \in Responses :
         LET out == GetDestinationsOutcome(r)
         IN  /\ calls' = Append(calls, Call("GetDestinations", loc.data.id.v, r))
             /\ resp' = IF out = "ok"
                          THEN [resp EXCEPT !.state =
                                  [loc.data EXCEPT !.destinations = Known(GetDestinations(remote))]]
                        ELSE DLFail(resp, out)
    /\ pc' = "done"
    /\ UNCHANGED <<kind, tfstate, remote, op, plan, loc, nops>>

DLDelete ==
    /\ pc = "idle" /\ kind = "destination_list" /\ tfstate # Absent /\ nops < MaxOps
    /\ \E r \in Responses :
         /\ (remote = Absent => r.err)
         /\ calls' = <<Call("DeleteDestinationList", tfstate.id.v, r)>>
         /\ remote' = IF ~r.err THEN Absent ELSE remote
         /\ resp' = IF NoResponse(r)
                      THEN [NoResp EXCEPT !.state = tfstate, !.panic = TRUE]
                    ELSE IF r.status = 404 THEN [NoResp EXCEPT !.state = tfstate]
                    ELSE IF r.err THEN AddError([NoResp EXCEPT !.state = tfstate])
                    ELSE [NoResp EXCEPT !.state = tfstate]
    /\ op' = "dl_delete"
    /\ plan' = Absent
    /\ loc' = [attempts |-> 1]
    /\ pc' = "done"
    /\ UNCHANGED <<kind, tfstate, nops>>

\* Update, first part: rename the list when the planned name differs.
DLUpdateStart ==
    /\ pc = "idle" /\ kind = "destination_list" /\ tfstate # Absent /\ nops < MaxOps
    /\ \E p \in DLUpdatePlans(tfstate), r \in Responses :
         LET renamed == ~ValueEqual(p.name, tfstate.name)
             payload == [name |-> p.name.v]
             failed == renamed /\ r.err
         IN  /\ plan' = p
             /\ (~renamed => r = OkResponse)
             /\ (remote = Absent => r.err)
             /\ calls' = IF renamed THEN <<Call("UpdateDestinationLists", payload, r)>>
                         ELSE <<>>
             /\ remote' = IF renamed /\ ~r.err THEN [remote EXCEPT !.name = payload.name]
                          ELSE remote
             /\ resp' = IF failed THEN AddError([NoResp EXCEPT !.state = tfstate])
                        ELSE [NoResp EXCEPT !.state = tfstate]
             /\ pc' = IF failed THEN "done" ELSE "dl_update_get"
    /\ op' = "dl_update"
    /\ loc' = [attempts |-> 1, readDestinations |-> {}, missingDestinations |-> {},
               extraDestinations |-> {}, convErr |-> FALSE]
    /\ UNCHANGED <<kind, tfstate, nops>>

\* Update as it would be if it matched destinations on their comment as well.
missingDestinations_ByComment(planList, readList) ==
    { [destination |-> p.destination, comment |-> p.comment.v] :
        p \in { q \in planList : ~\E o \in readList :
                   o.destination = q.destination /\ o.comment = q.comment } }

\* The create objects Update builds for the planned destinations it did not
\* find among the destinations it read.
missingDestinations(planList, readList) ==
    { [destination |-> p.destination, comment |-> p.comment.v] :
        p \in { q \in planList : ~\E o \in readList : o.destination = q.destination } }

\* The destinations Update read that no planned destination names.
unreconciled(planList, readList) ==
    { o \in readList : ~\E p \in planList : o.destination = p.destination }

\* Update as it would be if it never removed a destination.
extraDestinations_None(planList, readList) == {}

extraDestinations(planList, readList) ==
    { ParseInt(o.id.v).v : o \in unreconciled(planList, readList) }

\* Update, second part: read the destinations the list holds now.
DLUpdateGet ==
    /\ pc = "dl_update_get"
    /\ \E r \in Responses :
         LET out == GetDestinationsOutcome(r)
             readList == GetDestinations(remote)
             planList == plan.destinations.v
         IN  /\ (remote = Absent => r.err)
             /\ calls' = Append(calls, Call("GetDestinations", tfstate.id.v, r))
             /\ resp' = IF out = "ok" THEN resp ELSE DLFail(resp, out)
             /\ loc' = IF out = "ok"
                         THEN [loc EXCEPT
                                 !.readDestinations = readList,
                                 !.missingDestinations = missingDestinations(planList, readList),
                                 !.extraDestinations = extraDestinations(planList, readList),
                                 !.convErr = \E o \in unreconciled(planList, readList) :
                                                ~ParseInt(o.id.v).ok]
                       ELSE loc
             /\ pc' = IF out = "ok" THEN "dl_update_create" ELSE "done"
    /\ UNCHANGED <<kind, tfstate, remote, op, plan, nops>>

\* Update, third part: create the missing destinations, if there are any.
DLUpdateCreate ==
    /\ pc = "dl_update_create"
    /\ \E r \in Responses :
         LET sent == loc.missingDestinations # {}
             failed == sent /\ r.err
             reqs == { [destination |-> m.destination,
                        type |-> DetectedType(m.destination),
                        comment |-> m.comment] : m \in loc.missingDestinations }
         IN  /\ (~sent => r = OkResponse)
             /\ calls' = IF sent
                           THEN Append(calls, Call("CreateDestinations", loc.missingDestinations, r))
                         ELSE calls
             /\ remote' = IF sent /\ ~r.err THEN ServerAddDestinations(remote, reqs)
                          ELSE remote
             /\ resp' = IF failed THEN AddError(resp) ELSE resp
             /\ pc' = IF failed THEN "done" ELSE "dl_update_delete"
    /\ UNCHANGED <<kind, tfstate, op, plan, loc, nops>>

\* Update, fourth part: delete the extraneous destinations, if there are any.
DLUpdateDelete ==
    /\ pc = "dl_update_delete"
    /\ \E r \in Responses :
         LET sent == ~loc.convErr /\ loc.extraDestinations # {}
             failed == loc.convErr \/ (sent /\ r.err)
         IN  /\ (~sent => r = OkResponse)
             /\ calls' = IF sent
                           THEN Append(calls, Call("DeleteDestinations", loc.extraDestinations, r))
                         ELSE calls
             /\ remote' = IF sent /\ ~r.err
                            THEN ServerDeleteDestinations(remote, loc.extraDestinations)
                          ELSE remote
             /\ resp' = IF failed THEN AddError(resp) ELSE resp
             /\ pc' = IF failed THEN "done" ELSE "dl_update_reread"
    /\ UNCHANGED <<kind, tfstate, op, plan, loc, nops>>

\* Update, last part: plan.UpdateDestinations, then the plan becomes the state.
DLUpdateReread ==
    /\ pc = "dl_update_reread"
    /\ \E r \in Responses :
         LET out == GetDestinationsOutcome(r)
         IN  /\ calls' = Append(calls, Call("GetDestinations", plan.id.v, r))
             /\ resp' = IF out = "ok"
                          THEN [resp EXCEPT !.state =
                                  [plan EXCEPT !.destinations = Known(GetDestinations(remote))]]
                        ELSE DLFail(resp, out)
    /\ pc' = "done"
    /\ UNCHANGED <<kind, tfstate, remote, op, plan, loc, nops>>

----------------------------------------------------------------------------
(* Resource connector agent (ciscosecureaccess_resource_connector_agent).   *)
(* The agent registers itself with the service; Create looks it up.         *)

connectorHTTPBadRequest == 400
connectorHTTPNotFound == 404
connectorHTTPTooManyReqs == 429
connectorRetryMaxAttempts == 6

connectorPatchPathConfirmed == "/confirmed"
connectorPatchPathEnabled == "/enabled"

UnknownStr == [k |-> "unknown", v |-> ""]

Agent(confirmed, enabled) ==
    [ id |-> 51, hostname |-> "host-1", instanceId |-> "i-1", status |-> "active",
      confirmed |-> confirmed, enabled |-> enabled ]

Agents == { Agent(c, e) : c \in BOOLEAN, e \in BOOLEAN }

PlanBools == {NullBool, Known(TRUE), Known(FALSE)}

\* instance_id and hostname are Optional and Computed: the one the
\* configuration leaves out is unknown in the plan of a Create, never null.
CACreatePlans ==
    { [ id |-> UnknownInt, instance_id |-> Known("i-1"), hostname |-> UnknownStr,
        status |-> UnknownStr, confirmed |-> c, enabled |-> e ] :
        c \in PlanBools, e \in PlanBools }
    \cup
    { [ id |-> UnknownInt, instance_id |-> UnknownStr, hostname |-> Known("host-1"),
        status |-> UnknownStr, confirmed |-> c, enabled |-> e ] :
        c \in PlanBools, e \in PlanBools }

\* id and status are computed anew by every plan.
CAUpdatePlans(s) ==
    { [s EXCEPT !.id = UnknownInt, !.status = UnknownStr,
                !.confirmed = c, !.enabled = e] : c \in PlanBools, e \in PlanBools }

buildAgentFilter(data) ==
    IF data.instance_id.k # "null"
      THEN [ok |-> TRUE, key |-> "instanceId", value |-> data.instance_id.v]
    ELSE IF data.hostname.k # "null"
      THEN [ok |-> TRUE, key |-> "hostname", value |-> data.hostname.v]
    ELSE [ok |-> FALSE, key |-> "", value |-> ""]

LoadFromAPI(s, agent) ==
    [s EXCEPT !.id = Known(agent.id),
              !.hostname = Known(agent.hostname),
              !.instance_id = Known(agent.instanceId),
              !.status = Known(agent.status),
              !.confirmed = Known(agent.confirmed),
              !.enabled = Known(agent.enabled)]

\* Whether Synchronize sends the PATCH of a field: only towards true.
SynchronizePatches(planned, current) == planned.v /\ planned.v # current.v

patchConnectorField(path, value, r) ==
    Call("PatchConnector", [op |-> "replace", path |-> path, value |-> value], r)

\* A Synchronize that takes the planned value whether or not the PATCH
\* succeeded.
Synchronize_AssignsAnyway(s, p, agent, field, path, r) ==
    LET patch == SynchronizePatches(p[field], s[field])
        ok == patch /\ ~r.err
    IN  [ state |-> IF patch THEN [s EXCEPT ![field] = p[field]] ELSE s,
          agent |-> IF ok THEN [agent EXCEPT ![field] = p[field].v] ELSE agent,
          used  |-> patch,
          calls |-> IF patch THEN <<patchConnectorField(path, p[field].v, r)>>
                    ELSE <<>> ]

\* One of the two blocks of Synchronize, the one of `field`, with the
\* response r of its PATCH request: the state it leaves, the request it
\* made and the agent afterwards.
Synchronize(s, p, agent, field, path, r) ==
    LET patch == SynchronizePatches(p[field], s[field])
        ok == patch /\ ~r.err
    IN  [ state |-> IF ok THEN [s EXCEPT ![field] = p[field]] ELSE s,
          agent |-> IF ok THEN [agent EXCEPT ![field] = p[field].v] ELSE agent,
          used  |-> patch,
          calls |-> IF patch THEN <<patchConnectorField(path, p[field].v, r)>>
                    ELSE <<>> ]

\* The responses a PATCH may get; a PATCH that is not sent gets none.
PatchResponses(sent) == IF sent THEN Responses ELSE {OkResponse}

\* How many agents a ListConnectors answer may report for the filter.
ListTotals == IF remote = Absent THEN {0} ELSE {0, 1, 2}

\* The answer to ListConnectors: the response, the total it reports and the
\* agents it holds: the registered agent whenever the total is not 0.
ListAnswer(r, total) ==
    [status |-> r.status, err |-> r.err, body |-> r.body, total |-> total,
     data |-> IF total = 0 THEN <<>> ELSE <<remote>>]

\* processConnectorResponse for a listing of one agent: the state is loaded
\* from the first agent of the data; with no agent in the data it returns
\* with the state as it was.
LoadFirstAgent(s, data) == IF data = <<>> THEN s ELSE LoadFromAPI(s, Head(data))

\* A Create that lists again when the filter matches several agents.
CACreateOutcome_ManyRetried(r, total) ==
    IF r.err
      THEN (IF r.status = connectorHTTPBadRequest \/ r.status = connectorHTTPTooManyReqs
              THEN "retry" ELSE "fatal")
    ELSE IF total # 1 THEN "retry"
    ELSE "ok"

\* handleListConnectorsError and processConnectorResponse: how one
\* ListConnectors attempt of findAndConfigureAgent ends.
CACreateOutcome(r, total) ==
    IF r.err
      THEN (IF r.status = connectorHTTPBadRequest \/ r.status = connectorHTTPTooManyReqs
              THEN "retry" ELSE "fatal")
    ELSE IF total = 0 THEN "retry"
    ELSE IF total > 1 THEN "fatal"
    ELSE "ok"

CACreateStart ==
    /\ pc = "idle" /\ kind = "connector_agent" /\ tfstate = Absent /\ nops < MaxOps
    /\ \E p \in CACreatePlans : plan' = p /\ loc' = [attempts |-> 0, state |-> p]
    /\ op' = "ca_create"
    /\ pc' = "ca_create_try"
    /\ calls' = <<>>
    /\ resp' = NoResp
    /\ UNCHANGED <<kind, tfstate, remote, nops>>

\* One attempt of findAndConfigureAgent: the ListConnectors request.  With
\* exactly one agent listed, the state is loaded from it and Synchronize
\* follows (or, with no agent in the data, Create saves the state as it is).
CACreateAttempt ==
    /\ pc = "ca_create_try"
    /\ \E r \in Responses, total \in ListTotals :
         LET filters == buildAgentFilter(plan)
             answer == ListAnswer(r, total)
             out == CACreateOutcome(r, total)
             n == loc.attempts + 1
             again == RetryContinues(out, n, connectorRetryMaxAttempts)
             loaded == LoadFirstAgent(plan, answer.data)
         IN  /\ (r.err => total = 0)
             /\ calls' = Append(calls, Call("ListConnectors", filters, answer))
             /\ loc' = [attempts |-> n, state |-> IF out = "ok" THEN loaded ELSE plan]
             /\ pc' = IF again THEN "ca_create_try"
                      ELSE IF out = "ok" /\ answer.data # <<>> THEN "ca_sync_confirmed"
                      ELSE "done"
             /\ resp' = IF again THEN resp
                        ELSE IF RetryFailed(out) THEN AddError(resp)
                        ELSE IF answer.data = <<>> THEN [resp EXCEPT !.state = plan]
                        ELSE resp
    /\ UNCHANGED <<kind, tfstate, remote, op, plan, nops>>

\* Synchronize, first block: the PATCH of confirmed, when one is due.
CASyncConfirmed ==
    /\ pc = "ca_sync_confirmed"
    /\ \E r \in PatchResponses(SynchronizePatches(plan.confirmed, loc.state.confirmed)) :
         LET sync == Synchronize(loc.state, plan, remote, "confirmed",
                                 connectorPatchPathConfirmed, r)
         IN  /\ (remote = Absent /\ sync.used => r.err)
             /\ calls' = calls \o sync.calls
             /\ remote' = sync.agent
             /\ loc' = [loc EXCEPT !.state = sync.state]
    /\ pc' = "ca_sync_enabled"
    /\ UNCHANGED <<kind, tfstate, op, plan, resp, nops>>

\* Synchronize, second block: the PATCH of enabled, when one is due; then
\* Create or Update saves the state Synchronize left.
CASyncEnabled ==
    /\ pc = "ca_sync_enabled"
    /\ \E r \in PatchResponses(SynchronizePatches(plan.enabled, loc.state.enabled)) :
         LET sync == Synchronize(loc.state, plan, remote, "enabled",
                                 connectorPatchPathEnabled, r)
         IN  /\ (remote = Absent /\ sync.used => r.err)
             /\ calls' = calls \o sync.calls
             /\ remote' = sync.agent
             /\ loc' = [loc EXCEPT !.state = sync.state]
             /\ resp' = [resp EXCEPT !.state = sync.state]
    /\ pc' = "done"
    /\ UNCHANGED <<kind, tfstate, op, plan, nops>>

\* How one GetConnector attempt of Read ends.
CAReadOutcome(r) ==
    IF ~NoResponse(r) /\ r.status = connectorHTTPNotFound THEN "removed"
    ELSE IF ~NoResponse(r) /\ r.status = connectorHTTPTooManyReqs THEN "retry"
    ELSE IF r.err THEN "fatal"
    ELSE "ok"

CAReadStart ==
    /\ pc = "idle" /\ kind = "connector_agent" /\ tfstate # Absent /\ nops < MaxOps
    /\ op' = "ca_read"
    /\ plan' = Absent
    /\ pc' = "ca_read_try"
    /\ loc' = [attempts |-> 0]
    /\ calls' = <<>>
    /\ resp' = [NoResp EXCEPT !.state = tfstate]
    /\ UNCHANGED <<kind, tfstate, remote, nops>>

CAReadAttempt ==
    /\ pc = "ca_read_try"
    /\ \E r \in GetResponses :
         LET out == CAReadOutcome(r)
             n == loc.attempts + 1
             again == RetryContinues(out, n, connectorRetryMaxAttempts)
         IN  /\ calls' = Append(calls, Call("GetConnector", tfstate.id.v, r))
             /\ loc' = [attempts |-> n]
             /\ pc' = IF again THEN "ca_read_try" ELSE "done"
             /\ resp' = IF again THEN resp
                        ELSE IF out = "removed" THEN [resp EXCEPT !.state = Absent]
                        ELSE IF out = "ok"
                          THEN [resp EXCEPT !.state = LoadFromAPI(tfstate, remote)]
                        ELSE AddError(resp)
    /\ UNCHANGED <<kind, tfstate, remote, op, plan, nops>>

\* Update reads plan and prior state, then runs Synchronize on them.
CAUpdate ==
    /\ pc = "idle" /\ kind = "connector_agent" /\ tfstate # Absent /\ nops < MaxOps
    /\ \E p \in CAUpdatePlans(tfstate) : plan' = p
    /\ op' = "ca_update"
    /\ loc' = [attempts |-> 1, state |-> tfstate]
    /\ calls' = <<>>
    /\ resp' = [NoResp EXCEPT !.state = tfstate]
    /\ pc' = "ca_sync_confirmed"
    /\ UNCHANGED <<kind, tfstate, remote, nops>>

\* How one DeleteConnector attempt of Delete ends.
CADeleteOutcome(r) ==
    IF ~NoResponse(r) /\ r.status = connectorHTTPTooManyReqs THEN "retry"
    ELSE IF ~NoResponse(r) /\ r.status = connectorHTTPNotFound THEN "ok"
    ELSE IF r.err THEN "fatal"
    ELSE "ok"

CADeleteStart ==
    /\ pc = "idle" /\ kind = "connector_agent" /\ tfstate # Absent /\ nops < MaxOps
    /\ op' = "ca_delete"
    /\ plan' = Absent
    /\ pc' = "ca_delete_try"
    /\ loc' = [attempts |-> 0]
    /\ calls' = <<>>
    /\ resp' = [NoResp EXCEPT !.state = tfstate]
    /\ UNCHANGED <<kind, tfstate, remote, nops>>

CADeleteAttempt ==
    /\ pc = "ca_delete_try"
    /\ \E r \in Responses :
         LET out == CADeleteOutcome(r)
             n == loc.attempts + 1
             again == RetryContinues(out, n, connectorRetryMaxAttempts)
         IN  /\ (remote = Absent => r.err)
             /\ calls' = Append(calls, Call("DeleteConnector", tfstate.id.v, r))
             /\ remote' = IF ~r.err THEN Absent ELSE remote
             /\ loc' = [attempts |-> n]
             /\ pc' = IF again THEN "ca_delete_try" ELSE "done"
             /\ resp' = IF ~again /\ RetryFailed(out) THEN AddError(resp) ELSE resp
    /\ UNCHANGED <<kind, tfstate, op, plan, nops>>

----------------------------------------------------------------------------
(* Global settings (ciscosecureaccess_global_settings): a singleton whose   *)
(* two settings always exist on the service.                                *)

globalSettingsResourceID == "global-settings"

SETTINGNAME_SSE_GLOBAL_IPS_ENABLED == "sse.globalIPSEnabled"
SETTINGNAME_UMBRELLA_POSTURE_IPS_PROFILE_ID == "umbrella.posture.ipsProfileId"

IPSProfiles == {7, 8}

GlobalSettings == { [decryption |-> d, profile |-> i] : d \in BOOLEAN, i \in IPSProfiles }

\* Both settings are Optional and Computed: a plan holds the configured value,
\* or unknown where the configuration gives none.
GSPlanBools == {UnknownBool, Known(TRUE), Known(FALSE)}
GSPlanInts == {UnknownInt} \cup { Known(i) : i \in IPSProfiles }

GSCreatePlans ==
    { [id |-> UnknownStr, enable_global_decryption |-> d, global_ips_profile_id |-> i] :
        d \in GSPlanBools, i \in GSPlanInts }

GSUpdatePlans(s) ==
    { [id |-> x, enable_global_decryption |-> d, global_ips_profile_id |-> i] :
        x \in {s.id, UnknownStr},
        d \in {s.enable_global_decryption, Known(TRUE), Known(FALSE)},
        i \in {s.global_ips_profile_id} \cup { Known(j) : j \in IPSProfiles } }

\* FetchState: the settings of the response written over the model.
FetchState(s, settings) ==
    [s EXCEPT !.enable_global_decryption = Known(settings.decryption),
              !.global_ips_profile_id = Known(settings.profile)]

\* Whether a block of PutState sends its PUT: the planned value is not
\* unknown and differs from the current one.
PutsSetting(cur, p, attr) == p[attr].k # "unknown" /\ p[attr].v # cur[attr].v

PutPolicySetting(name, value, r) ==
    Call("PutPolicySetting", [settingName |-> name, settingValue |-> value], r)

\* One of the two blocks of PutState, the one of the attribute attr kept by
\* the service under `name` (field `setting` of its settings), with the
\* response r of its PUT request: the current state and the plan it leaves,
\* whether it failed, the request it made and the settings of the service
\* afterwards.
PutState(cur, p, settings, attr, setting, name, r) ==
    LET put == PutsSetting(cur, p, attr)
        failed == put /\ r.err
    IN  [ cur |-> IF put /\ ~failed THEN [cur EXCEPT ![attr] = p[attr]] ELSE cur,
          plan |-> IF ~put /\ p[attr].k = "unknown"
                     THEN [p EXCEPT ![attr] = cur[attr]] ELSE p,
          failed |-> failed,
          settings |-> IF put /\ ~failed
                         THEN [settings EXCEPT ![setting] = p[attr].v] ELSE settings,
          calls |-> IF put THEN <<PutPolicySetting(name, p[attr].v, r)>> ELSE <<>> ]

\* A PutState that goes on to the IPS profile after the decryption PUT failed.
PutStateReturns_GoesOn(failed) == FALSE

\* PutState returns its diagnostics as soon as a PUT has failed.
PutStateReturns(failed) == failed

GSEmpty ==
    [id |-> NullStr, enable_global_decryption |-> NullBool, global_ips_profile_id |-> NullInt]

\* The answer to GetPolicySettings: the response and the settings it holds.
SettingsAnswer(r) ==
    [status |-> r.status, err |-> r.err, body |-> r.body, settings |-> remote]

\* Create, first part: FetchState into an empty model.
GSCreate ==
    /\ pc = "idle" /\ kind = "global_settings" /\ tfstate = Absent /\ nops < MaxOps
    /\ \E p \in GSCreatePlans, r \in Responses :
         /\ plan' = p
         /\ calls' = <<Call("GetPolicySettings", "", SettingsAnswer(r))>>
         /\ loc' = [attempts |-> 1,
                    currentState |-> IF r.err THEN GSEmpty ELSE FetchState(GSEmpty, remote),
                    plan |-> p]
         /\ resp' = IF r.err THEN AddError(NoResp) ELSE NoResp
         /\ pc' = IF r.err THEN "done" ELSE "gs_put_decryption"
    /\ op' = "gs_create"
    /\ UNCHANGED <<kind, tfstate, remote, nops>>

\* PutState, first block: the PUT of the decryption setting, when one is due.
GSPutDecryption ==
    /\ pc = "gs_put_decryption"
    /\ \E r \in PatchResponses(PutsSetting(loc.currentState, loc.plan,
                                         "enable_global_decryption")) :
         LET put == PutState(loc.currentState, loc.plan, remote,
                             "enable_global_decryption", "decryption",
                             SETTINGNAME_SSE_GLOBAL_IPS_ENABLED, r)
         IN  /\ calls' = calls \o put.calls
             /\ remote' = put.settings
             /\ loc' = [loc EXCEPT !.currentState = put.cur, !.plan = put.plan]
             /\ resp' = IF put.failed THEN AddError(resp) ELSE resp
             /\ pc' = IF PutStateReturns(put.failed) THEN "done" ELSE "gs_put_profile"
    /\ UNCHANGED <<kind, tfstate, op, plan, nops>>

\* PutState, second block: the PUT of the IPS profile, when one is due; then
\* Create or Update sets the id and saves the plan.
GSPutProfile ==
    /\ pc = "gs_put_profile"
    /\ \E r \in PatchResponses(PutsSetting(loc.currentState, loc.plan,
                                         "global_ips_profile_id")) :
         LET put == PutState(loc.currentState, loc.plan, remote,
                             "global_ips_profile_id", "profile",
                             SETTINGNAME_UMBRELLA_POSTURE_IPS_PROFILE_ID, r)
         IN  /\ calls' = calls \o put.calls
             /\ remote' = put.settings
             /\ loc' = [loc EXCEPT !.currentState = put.cur, !.plan = put.plan]
             /\ resp' = IF put.failed \/ resp.err THEN AddError(resp)
                        ELSE [resp EXCEPT !.state =
                                [put.plan EXCEPT !.id = Known(globalSettingsResourceID)]]
    /\ pc' = "done"
    /\ UNCHANGED <<kind, tfstate, op, plan, nops>>

GSRead ==
    /\ pc = "idle" /\ kind = "global_settings" /\ tfstate # Absent /\ nops < MaxOps
    /\ \E r \in Responses :
         /\ calls' = <<Call("GetPolicySettings", "", SettingsAnswer(r))>>
         /\ resp' = IF r.err THEN AddError([NoResp EXCEPT !.state = tfstate])
                    ELSE [NoResp EXCEPT !.state =
                            [FetchState(tfstate, remote) EXCEPT
                               !.id = Known(globalSettingsResourceID)]]
    /\ op' = "gs_read"
    /\ plan' = Absent
    /\ loc' = [attempts |-> 1]
    /\ pc' = "done"
    /\ UNCHANGED <<kind, tfstate, remote, nops>>

\* Update reads plan and prior state, then runs PutState on them.
GSUpdate ==
    /\ pc = "idle" /\ kind = "global_settings" /\ tfstate # Absent /\ nops < MaxOps
    /\ \E p \in GSUpdatePlans(tfstate) :
         /\ plan' = p
         /\ loc' = [attempts |-> 1, currentState |-> tfstate, plan |-> p]
    /\ op' = "gs_update"
    /\ calls' = <<>>
    /\ resp' = [NoResp EXCEPT !.state = tfstate]
    /\ pc' = "gs_put_decryption"
    /\ UNCHANGED <<kind, tfstate, remote, nops>>

\* A Delete that would reset the decryption setting on the service.
GSDelete_ResetsDecryption ==
    /\ pc = "idle" /\ kind = "global_settings" /\ tfstate # Absent /\ nops < MaxOps
    /\ op' = "gs_delete"
    /\ plan' = Absent
    /\ calls' = <<PutPolicySetting(SETTINGNAME_SSE_GLOBAL_IPS_ENABLED, FALSE, OkResponse)>>
    /\ remote' = [remote EXCEPT !.decryption = FALSE]
    /\ resp' = [NoResp EXCEPT !.state = tfstate]
    /\ loc' = [attempts |-> 1]
    /\ pc' = "done"
    /\ UNCHANGED <<kind, tfstate, nops>>

\* Delete makes no request: the settings stay as they are on the service.
GSDelete ==
    /\ pc = "idle" /\ kind = "global_settings" /\ tfstate # Absent /\ nops < MaxOps
    /\ op' = "gs_delete"
    /\ plan' = Absent
    /\ calls' = <<>>
    /\ resp' = [NoResp EXCEPT !.state = tfstate]
    /\ loc' = [attempts |-> 1]
    /\ pc' = "done"
    /\ UNCHANGED <<kind, tfstate, remote, nops>>

----------------------------------------------------------------------------
(* Identity lookup (data source ciscosecureaccess_identity and the lookups  *)
(* of the access policy): getIdentitiesForFilter.                           *)

identityBatchSize == 100

IdentityAttempts == 3

\* GetIdentities requests one lookup may make in the model.
MaxRequests == 7

\* How many identities match the filter on the service.
IdentityTotals == {0, 1, 100, 150, 200}

Min(a, b) == IF a < b THEN a ELSE b

\* The identities of the page at offset: those numbered offset+1 .. offset+n.
IdentityPage(total, offset) ==
    LET n == IF total > offset THEN Min(identityBatchSize, total - offset) ELSE 0
    IN  [from |-> offset + 1, len |-> n]

\* A lookup that takes a 429 for a page it received.
IdentityOutcome_RateLimitedIsPage(r) ==
    IF ~r.err \/ (~NoResponse(r) /\ r.status = 429) THEN "ok"
    ELSE "fatal"

\* How one GetIdentities attempt ends.
IdentityOutcome(r) ==
    IF ~r.err THEN "ok"
    ELSE IF ~NoResponse(r) /\ r.status = 429 THEN "retry"
    ELSE "fatal"

IDStart ==
    /\ pc = "idle" /\ kind = "identity" /\ nops < MaxOps
    /\ op' = "id_read"
    /\ plan' = [filter |-> Known("user")]
    /\ pc' = "id_try"
    /\ loc' = [attempts |-> 0, offset |-> 0, identities |-> <<>>]
    /\ calls' = <<>>
    /\ resp' = NoResp
    /\ UNCHANGED <<kind, tfstate, remote, nops>>

\* One GetIdentities request.  When retry.Do gives up after its attempts the
\* outer loop starts it again unless done was set.
IDAttempt ==
    /\ pc = "id_try"
    /\ Len(calls) < MaxRequests
    /\ \E r \in Responses :
         LET out == IdentityOutcome(r)
             n == loc.attempts + 1
             page == IdentityPage(remote.total, loc.offset)
             exhausted == out = "retry" /\ n >= IdentityAttempts
             done == out = "fatal" \/ (out = "ok" /\ page.len < identityBatchSize)
             found == IF out = "ok" /\ page.len > 0 THEN Append(loc.identities, page)
                      ELSE loc.identities
             rs == IF out = "fatal" \/ exhausted THEN AddError(resp) ELSE resp
         IN  /\ calls' = Append(calls, Call("GetIdentities",
                                            [limit |-> identityBatchSize, offset |-> loc.offset], r))
             /\ loc' = [attempts |-> IF out = "retry" /\ ~exhausted THEN n ELSE 0,
                        offset |-> IF out = "ok" THEN loc.offset + identityBatchSize
                                   ELSE loc.offset,
                        identities |-> found]
             /\ pc' = IF done THEN "done" ELSE "id_try"
             /\ resp' = IF done /\ ~rs.err
                          THEN [rs EXCEPT !.state =
                                  [filter |-> plan.filter, identities |-> found]]
                        ELSE rs
    /\ UNCHANGED <<kind, tfstate, remote, op, plan, nops>>

----------------------------------------------------------------------------
(* Provider configuration (ciscosecureaccessProvider.Configure).  For this  *)
(* kind `plan` is the provider configuration, `remote` the environment of   *)
(* the process, and the state returned is the client factory handed to the  *)
(* resources and data sources (Absent: none).                               *)

envKeyID == "CISCOSECUREACCESS_KEY_ID"
envKeySecret == "CISCOSECUREACCESS_KEY_SECRET"

\* os.Getenv gives "" for a variable that is not set.
Environments ==
    { [n \in {envKeyID, envKeySecret} |-> IF n = envKeyID THEN i ELSE x] :
        i \in {"", "env-id"}, x \in {"", "env-secret"} }

ProviderConfigs ==
    { [api_endpoint |-> e, key_id |-> i, key_secret |-> x] :
        e \in {NullStr, Known("https://api.example.test")},
        i \in {NullStr, UnknownStr, Known(""), Known("cfg-id")},
        x \in {NullStr, UnknownStr, Known(""), Known("cfg-secret")} }

\* A resolution that lets a set environment variable win.
validateAndResolveConfig_EnvFirst(env, config) ==
    [ keyID       |-> IF env[envKeyID] # "" THEN env[envKeyID] ELSE config.key_id.v,
      keySecret   |-> IF env[envKeySecret] # "" THEN env[envKeySecret]
                      ELSE config.key_secret.v,
      apiEndpoint |-> config.api_endpoint.v ]

validateAndResolveConfig(env, config) ==
    [ keyID       |-> IF config.key_id.k # "null" /\ config.key_id.v # ""
                        THEN config.key_id.v ELSE env[envKeyID],
      keySecret   |-> IF config.key_secret.k # "null" /\ config.key_secret.v # ""
                        THEN config.key_secret.v ELSE env[envKeySecret],
      apiEndpoint |-> config.api_endpoint.v ]

\* The attribute errors of the first check: unknown configuration values.
UnknownValueErrors(config) ==
    { [path |-> a, summary |-> "unknown"] :
        a \in { b \in {"key_id", "key_secret"} : config[b].k = "unknown" } }

\* The attribute errors of the second check: missing or empty credentials.
MissingValueErrors(resolved) ==
    (IF resolved.keyID = "" THEN {[path |-> "key_id", summary |-> "missing"]} ELSE {})
    \cup
    (IF resolved.keySecret = ""
       THEN {[path |-> "key_secret", summary |-> "missing"]} ELSE {})

ProviderConfigure ==
    /\ pc = "idle" /\ kind = "provider" /\ nops < MaxOps
    /\ \E config \in ProviderConfigs :
         LET unknown == UnknownValueErrors(config)
             resolved == validateAndResolveConfig(remote, config)
             diags == IF unknown # {} THEN unknown ELSE MissingValueErrors(resolved)
         IN  /\ plan' = config
             /\ loc' = [attempts |-> 0, diags |-> diags]
             /\ resp' = IF diags # {} THEN AddError(NoResp)
                        ELSE [NoResp EXCEPT !.state =
                                [ KeyId       |-> resolved.keyID,
                                  KeySecret   |-> resolved.keySecret,
                                  ApiEndpoint |-> resolved.apiEndpoint ]]
    /\ op' = "provider_configure"
    /\ calls' = <<>>
    /\ pc' = "done"
    /\ UNCHANGED <<kind, tfstate, remote, nops>>

----------------------------------------------------------------------------
(* The rate limiter of the acceptance tests (rateLimitedTest).  For this    *)
(* kind `remote` holds the package-level variables of the test binary and   *)
(* the clock, and `loc` holds, for every test goroutine, where it is in     *)
(* rateLimitedTest, and the log of the test functions started and ended.    *)
(* Time is counted in units of ten seconds.                                 *)

\* Test goroutines that call rateLimitedTest, once each.
NumTests == 3

\* The clock stops here.
MaxTime == 8

\* minWaitTime = 30 * time.Second
minWaitTime == 3

Tests == 1..NumTests

\* lastTestTime starts as the zero time.Time: time.Since of it is longer than
\* any interval.
ZeroTime == [zero |-> TRUE, t |-> 0]

Since(last, now) == IF last.zero THEN minWaitTime + MaxTime + 1 ELSE now - last.t

RLInitRemote == [now |-> 0, lastTestTime |-> ZeroTime, testMutex |-> 0]

RLInitLoc ==
    [ attempts |-> 0,
      at |-> [g \in Tests |-> "call"],
      sleepTime |-> [g \in Tests |-> 0],
      wake |-> [g \in Tests |-> 0],
      log |-> <<>> ]

\* testMutex.Lock()
RLLock ==
    \E g \in Tests :
      /\ kind = "rate_limiter" /\ loc.at[g] = "call"
      /\ remote.testMutex = 0
      /\ remote' = [remote EXCEPT !.testMutex = g]
      /\ loc' = [loc EXCEPT !.at[g] = "locked"]
      /\ UNCHANGED <<kind, tfstate, pc, op, plan, calls, resp, nops>>

\* elapsed := time.Since(lastTestTime); sleepTime := minInterval - elapsed
RLElapsed ==
    \E g \in Tests :
      /\ kind = "rate_limiter" /\ loc.at[g] = "locked"
      /\ LET elapsed == Since(remote.lastTestTime, remote.now)
         IN  loc' = IF elapsed < minWaitTime
                      THEN [loc EXCEPT !.at[g] = "sleep",
                                       !.sleepTime[g] = minWaitTime - elapsed]
                      ELSE [loc EXCEPT !.at[g] = "test"]
      /\ UNCHANGED <<kind, tfstate, remote, pc, op, plan, calls, resp, nops>>

\* time.Sleep(sleepTime) begins
RLSleep ==
    \E g \in Tests :
      /\ kind = "rate_limiter" /\ loc.at[g] = "sleep"
      /\ loc' = [loc EXCEPT !.at[g] = "sleeping",
                            !.wake[g] = remote.now + loc.sleepTime[g]]
      /\ UNCHANGED <<kind, tfstate, remote, pc, op, plan, calls, resp, nops>>

\* time.Sleep returns: not before the duration has passed
RLWake ==
    \E g \in Tests :
      /\ kind = "rate_limiter" /\ loc.at[g] = "sleeping"
      /\ remote.now >= loc.wake[g]
      /\ loc' = [loc EXCEPT !.at[g] = "test"]
      /\ UNCHANGED <<kind, tfstate, remote, pc, op, plan, calls, resp, nops>>

\* testFunc() is called
RLTestStarts ==
    \E g \in Tests :
      /\ kind = "rate_limiter" /\ loc.at[g] = "test"
      /\ loc' = [loc EXCEPT !.at[g] = "running",
                            !.log = Append(@, [ev |-> "start", g |-> g,
                                               t |-> remote.now, failed |-> FALSE])]
      /\ UNCHANGED <<kind, tfstate, remote, pc, op, plan, calls, resp, nops>>

\* testFunc() returns
RLTestReturns ==
    \E g \in Tests :
      /\ kind = "rate_limiter" /\ loc.at[g] = "running"
      /\ loc' = [loc EXCEPT !.at[g] = "returned",
                            !.log = Append(@, [ev |-> "end", g |-> g,
                                               t |-> remote.now, failed |-> FALSE])]
      /\ UNCHANGED <<kind, tfstate, remote, pc, op, plan, calls, resp, nops>>

\* testFunc() fails the test: t.Fatalf ends the goroutine with
\* runtime.Goexit, which runs the deferred calls and nothing else.
RLTestFails ==
    \E g \in Tests :
      /\ kind = "rate_limiter" /\ loc.at[g] = "running"
      /\ loc' = [loc EXCEPT !.at[g] = "exiting",
                            !.log = Append(@, [ev |-> "end", g |-> g,
                                               t |-> remote.now, failed |-> TRUE])]
      /\ UNCHANGED <<kind, tfstate, remote, pc, op, plan, calls, resp, nops>>

\* lastTestTime = time.Now()
RLStamp ==
    \E g \in Tests :
      /\ kind = "rate_limiter" /\ loc.at[g] = "returned"
      /\ remote' = [remote EXCEPT !.lastTestTime = [zero |-> FALSE, t |-> remote.now]]
      /\ loc' = [loc EXCEPT !.at[g] = "exiting"]
      /\ UNCHANGED <<kind, tfstate, pc, op, plan, calls, resp, nops>>

\* defer testMutex.Unlock()
RLUnlock ==
    \E g \in Tests :
      /\ kind = "rate_limiter" /\ loc.at[g] = "exiting"
      /\ remote' = [remote EXCEPT !.testMutex = 0]
      /\ loc' = [loc EXCEPT !.at[g] = "done"]
      /\ UNCHANGED <<kind, tfstate, pc, op, plan, calls, resp, nops>>

\* The clock advances.
RLTick ==
    /\ kind = "rate_limiter"
    /\ remote.now < MaxTime
    /\ remote' = [remote EXCEPT !.now = @ + 1]
    /\ UNCHANGED <<kind, tfstate, pc, op, plan, loc, calls, resp, nops>>

InitRL ==
    /\ kind = "rate_limiter"
    /\ tfstate = Absent
    /\ remote = RLInitRemote
    /\ pc = "idle"
    /\ op = "none"
    /\ plan = Absent
    /\ loc = RLInitLoc
    /\ calls = <<>>
    /\ resp = NoResp
    /\ nops = 0

NextRL ==
    \/ RLLock
    \/ RLElapsed
    \/ RLSleep
    \/ RLWake
    \/ RLTestStarts
    \/ RLTestReturns
    \/ RLTestFails
    \/ RLStamp
    \/ RLUnlock
    \/ RLTick

SpecRL == InitRL /\ [][NextRL]_vars

----------------------------------------------------------------------------
(* Terraform: it stores what the handler returned.  After a Delete without *)
(* an error diagnostic the framework removes the resource from state; a    *)
(* crashed handler returns nothing, and the state stays as it was.         *)

DeleteOps == {"ap_delete", "ntg_delete", "pr_delete", "dl_delete", "ca_delete",
              "gs_delete"}

Return ==
    /\ pc = "done"
    /\ tfstate' = IF resp.panic THEN tfstate
                  ELSE IF op \in DeleteOps
                    THEN (IF resp.err THEN resp.state ELSE Absent)
                  ELSE resp.state
    /\ pc' = "idle"
    /\ op' = "none"
    /\ plan' = Absent
    /\ loc' = [attempts |-> 0]
    /\ calls' = <<>>
    /\ resp' = NoResp
    /\ nops' = nops + 1
    /\ UNCHANGED <<kind, remote>>

Kinds == {"access_policy", "ntg", "private_resource", "destination_list",
          "connector_agent", "global_settings", "identity", "provider"}

InitRemote(k) ==
    IF k = "connector_agent" THEN Agents
    ELSE IF k = "global_settings" THEN GlobalSettings
    ELSE IF k = "identity" THEN { [total |-> n] : n \in IdentityTotals }
    ELSE IF k = "provider" THEN Environments
    ELSE {Absent}

Init ==
    /\ kind \in Kinds
    /\ tfstate = Absent
    /\ remote \in InitRemote(kind)
    /\ pc = "idle"
    /\ op = "none"
    /\ plan = Absent
    /\ loc = [attempts |-> 0]
    /\ calls = <<>>
    /\ resp = NoResp
    /\ nops = 0

Next ==
    \/ APCreateStart
    \/ APCreateAttempt
    \/ APRead
    \/ APUpdate
    \/ APDeleteStart
    \/ APDeleteAttempt
    \/ NTGCreate
    \/ NTGRead
    \/ NTGUpdate
    \/ NTGDelete
    \/ PRCreateStart
    \/ PRCreateAttempt
    \/ PRRead
    \/ PRUpdate
    \/ PRDelete
    \/ DLCreate
    \/ DLCreateRead
    \/ DLRead
    \/ DLReadDestinations
    \/ DLDelete
    \/ DLUpdateStart
    \/ DLUpdateGet
    \/ DLUpdateCreate
    \/ DLUpdateDelete
    \/ DLUpdateReread
    \/ CACreateStart
    \/ CACreateAttempt
    \/ CASyncConfirmed
    \/ CASyncEnabled
    \/ CAReadStart
    \/ CAReadAttempt
    \/ CAUpdate
    \/ CADeleteStart
    \/ CADeleteAttempt
    \/ GSCreate
    \/ GSPutDecryption
    \/ GSPutProfile
    \/ GSRead
    \/ GSUpdate
    \/ GSDelete
    \/ IDStart
    \/ IDAttempt
    \/ ProviderConfigure
    \/ Return

Spec == Init /\ [][Next]_vars

\* The behaviours that manage one kind of resource.
InitAP == Init /\ kind = "access_policy"

NextAP ==
    \/ APCreateStart
    \/ APCreateAttempt
    \/ APRead
    \/ APUpdate
    \/ APDeleteStart
    \/ APDeleteAttempt
    \/ Return

SpecAP == InitAP /\ [][NextAP]_vars

\* The rule is edited on the service, outside Terraform: one of its
\* conditions is removed.
APRemoteDrift ==
    /\ pc = "idle" /\ kind = "access_policy" /\ remote # Absent
    /\ \E i \in 1..Len(remote.ruleConditions) :
         remote' = [remote EXCEPT !.ruleConditions =
                      SubSeq(@, 1, i - 1) \o SubSeq(@, i + 1, Len(@))]
    /\ UNCHANGED <<kind, tfstate, pc, op, plan, loc, calls, resp, nops>>

NextAPDrift ==
    \/ NextAP
    \/ APRemoteDrift

SpecAPDrift == InitAP /\ [][NextAPDrift]_vars

InitNTG == Init /\ kind = "ntg"

NextNTG ==
    \/ NTGCreate
    \/ NTGRead
    \/ NTGUpdate
    \/ NTGDelete
    \/ Return

SpecNTG == InitNTG /\ [][NextNTG]_vars

InitDL == Init /\ kind = "destination_list"

NextDL ==
    \/ DLCreate
    \/ DLCreateRead
    \/ DLRead
    \/ DLReadDestinations
    \/ DLDelete
    \/ DLUpdateStart
    \/ DLUpdateGet
    \/ DLUpdateCreate
    \/ DLUpdateDelete
    \/ DLUpdateReread
    \/ Return

SpecDL == InitDL /\ [][NextDL]_vars

InitCA == Init /\ kind = "connector_agent"

NextCA ==
    \/ CACreateStart
    \/ CACreateAttempt
    \/ CASyncConfirmed
    \/ CASyncEnabled
    \/ CAReadStart
    \/ CAReadAttempt
    \/ CAUpdate
    \/ CADeleteStart
    \/ CADeleteAttempt
    \/ Return

SpecCA == InitCA /\ [][NextCA]_vars


----------------------------------------------------------------------------
(* Properties.  A handler has finished when pc = "done": calls then holds   *)
(* every request it made, resp what it returns, tfstate the prior state.    *)

Done(o) == pc = "done" /\ op = o

\* The handler returned without an error diagnostic and without crashing.
Succeeded == ~resp.err /\ ~resp.panic

CallsOf(api) == SelectSeq(calls, LAMBDA c : c.api = api)

\* The operations that run their request in a retry loop, and that request.
RetryOps ==
    {"ap_create", "ap_delete", "pr_create", "id_read", "ca_create", "ca_read", "ca_delete"}

RetriedApi(o) ==
    CASE o = "ap_create" -> "AddRule"
      [] o = "ap_delete" -> "DeleteRule"
      [] o = "pr_create" -> "AddPrivateResource"
      [] o = "id_read"   -> "GetIdentities"
      [] o = "ca_create" -> "ListConnectors"
      [] o = "ca_read"   -> "GetConnector"
      [] OTHER           -> "DeleteConnector"

\* The attempts the running retry loop has made so far.
Attempts == CallsOf(RetriedApi(op))

\* The answers after which each retrying operation makes another attempt.
RetryableAnswer(o, a) ==
    CASE o = "ap_create" ->
           a.err /\ (a.status = 409 \/ (a.status = 400 /\ a.body = "invalid_ids"))
      [] o = "ap_delete" -> a.err /\ a.status = 409
      [] o = "pr_create" -> a.err /\ a.status \in {409, 429}
      [] o = "id_read"   -> a.err /\ a.status = 429
      [] o = "ca_create" ->
           (a.err /\ a.status \in {400, 429}) \/ (~a.err /\ a.total = 0)
      [] OTHER           -> a.status = 429

\* An attempt that did not do what the operation is for.
FailedAttempt(o, a) == a.err \/ (o = "ca_create" /\ a.total # 1)

\* An attempt that failed for good: not a success, not retryable, and not the
\* 404 that Delete and the connector Read take for "already gone".
FinalFailure(o, a) ==
    /\ FailedAttempt(o, a)
    /\ ~RetryableAnswer(o, a)
    /\ ~(a.status = 404 /\ o \in {"ap_delete", "ca_delete", "ca_read"})

\* C1 (as stated): a failed attempt is followed by another attempt only when
\* its status was 409 or 429, and a failure with any other status or with no
\* response ends the operation with an error.
C1_RetryOnly409Or429 ==
    op \in RetryOps =>
      LET a == Attempts
      IN  /\ \A i \in 1..(Len(a) - 1) :
               a[i].rsp.err => a[i].rsp.status \in {409, 429}
          /\ (pc = "done" /\ a # <<>> /\ a[Len(a)].rsp.err
                /\ a[Len(a)].rsp.status \notin {404, 409, 429}
              => resp.err)

\* What the retry loops do: a retrying operation makes another attempt only
\* after an answer its own loop classifies as retryable (409, or 400 naming
\* invalid ids, for access-policy Create; 409 for access-policy Delete; 409
\* or 429 for private-resource Create; 429 for the identity lookup and for
\* connector Read and Delete; 400, 429 or a listing of zero agents for
\* connector Create).  Any other failure is the last attempt; the operation
\* then ends with an error diagnostic in every case but one, private-resource
\* Create without an HTTP response, which dereferences the nil response.
RetryOnlyWhenRetryable ==
    op \in RetryOps =>
      LET a == Attempts
      IN  /\ \A i \in 1..(Len(a) - 1) :
               FailedAttempt(op, a[i].rsp) => RetryableAnswer(op, a[i].rsp)
          /\ \A i \in 1..Len(a) :
               FinalFailure(op, a[i].rsp) =>
                 /\ i = Len(a)
                 /\ pc = "done"
                 /\ IF op = "pr_create" /\ NoResponse(a[i].rsp)
                      THEN resp.panic /\ ~resp.err
                      ELSE resp.err /\ ~resp.panic

\* Private-resource Create got no HTTP response to its first attempt and
\* crashed without adding an error diagnostic.
PRCreateCrashed ==
    /\ Done("pr_create")
    /\ Len(Attempts) = 1
    /\ NoResponse(Attempts[1].rsp)
    /\ resp.panic
    /\ ~resp.err

\* Access-policy Create, for a rule that names its sources by id, made a
\* second attempt after a 400 that named invalid ids, and that second attempt
\* failed for good.
RetriedAfterInvalidIds ==
    /\ Done("ap_create")
    /\ Len(calls) = 2
    /\ CarriesIds(calls[1].req)
    /\ calls[1].rsp.status = 400
    /\ calls[1].rsp.body = "invalid_ids"
    /\ FinalFailure(op, calls[2].rsp)
    /\ resp.err


----------------------------------------------------------------------------
(* Delete and Read answered with 404. *)

RemoteDeleteOps == {"ap_delete", "ntg_delete", "pr_delete", "dl_delete", "ca_delete"}

DeleteApis ==
    {"DeleteRule", "DeleteNetworkTunnelGroup", "DeletePrivateResource",
     "DeleteDestinationList", "DeleteConnector"}

\* C2: a Delete whose request is answered with 404 makes no further delete
\* request and finishes without an error diagnostic (and without crashing),
\* for access policy, tunnel group, private resource, destination list and
\* connector agent.
C2_DeleteNotFoundIsSuccess ==
    op \in RemoteDeleteOps =>
      \A i \in 1..Len(calls) :
        (calls[i].api \in DeleteApis /\ calls[i].rsp.status = 404) =>
          /\ i = Len(calls)
          /\ pc = "done"
          /\ ~resp.err
          /\ ~resp.panic

\* A connector-agent Delete was rate limited once and then answered 404.
C2_Witness ==
    /\ Done("ca_delete")
    /\ Len(calls) = 2
    /\ calls[1].rsp.status = 429
    /\ calls[2].rsp.status = 404 /\ calls[2].rsp.err
    /\ Succeeded

ReadOps == {"ntg_read", "ap_read", "pr_read", "ca_read"}

\* C3 (as stated): a Read answered with 404 removes the resource from the
\* state without an error diagnostic; a Read that fails in any other way
\* adds an error diagnostic and leaves the saved state as it was.
C3_ReadNotFoundOrError ==
    (pc = "done" /\ op \in ReadOps /\ calls # <<>>) =>
      LET last == calls[Len(calls)].rsp
      IN  IF last.status = 404
            THEN resp.state = Absent /\ ~resp.err /\ ~resp.panic
          ELSE IF last.err
            THEN resp.err /\ ~resp.panic /\ resp.state = tfstate
          ELSE TRUE

----------------------------------------------------------------------------
(* Destination-list Update. *)

\* Update has read the observed destinations O (loc.readDestinations) and is
\* past the step that creates, respectively deletes.
PastCreate == op = "dl_update" /\ pc \in {"dl_update_delete", "dl_update_reread"}
PastDelete == op = "dl_update" /\ pc = "dl_update_reread"

DestinationStrings(entries) == { e.destination : e \in entries }

\* The planned entries whose destination string no observed entry has.
PlannedNotObserved ==
    { q \in plan.destinations.v :
        q.destination \notin DestinationStrings(loc.readDestinations) }

\* The observed entries whose destination string no planned entry has.
ObservedNotPlanned ==
    { o \in loc.readDestinations :
        o.destination \notin DestinationStrings(plan.destinations.v) }

\* C4: Update sends CreateDestinations with exactly the planned entries whose
\* destination string no observed entry has, and DeleteDestinations with
\* exactly the ids of the observed entries whose destination string no
\* planned entry has; a call whose difference is empty is not made.
C4_DestinationDifferences ==
    /\ PastCreate =>
         LET creates == CallsOf("CreateDestinations")
         IN  IF PlannedNotObserved = {} THEN creates = <<>>
             ELSE /\ Len(creates) = 1
                  /\ creates[1].req =
                       { [destination |-> q.destination, comment |-> q.comment.v] :
                           q \in PlannedNotObserved }
    /\ PastDelete =>
         LET deletes == CallsOf("DeleteDestinations")
         IN  IF ObservedNotPlanned = {} THEN deletes = <<>>
             ELSE /\ Len(deletes) = 1
                  /\ \A o \in ObservedNotPlanned :
                       \E n \in deletes[1].req : Itoa(n) = o.id.v
                  /\ \A n \in deletes[1].req :
                       \E o \in ObservedNotPlanned : Itoa(n) = o.id.v

\* Update found something to create and something to delete, and sent both.
C4_Witness ==
    /\ PastDelete
    /\ PlannedNotObserved # {}
    /\ ObservedNotPlanned # {}
    /\ Len(CallsOf("CreateDestinations")) = 1
    /\ Len(CallsOf("DeleteDestinations")) = 1

\* C5: after a successful Update the saved destinations are the list re-read
\* from the service, their destination strings are the planned ones, and
\* adding one destination to a list of two saves exactly three.
C5_SavedDestinationsAreReread ==
    (Done("dl_update") /\ Succeeded) =>
      LET saved == resp.state.destinations.v
          planned == DestinationStrings(plan.destinations.v)
          prior == DestinationStrings(tfstate.destinations.v)
      IN  /\ saved = GetDestinations(remote)
          /\ DestinationStrings(saved) = planned
          /\ (Cardinality(tfstate.destinations.v) = 2 /\ Cardinality(prior) = 2
                /\ prior \subseteq planned /\ Cardinality(planned) = 3)
             => Cardinality(saved) = 3

\* A successful Update added one destination to a list of two.
C5_Witness ==
    /\ Done("dl_update") /\ Succeeded
    /\ Cardinality(tfstate.destinations.v) = 2
    /\ DestinationStrings(tfstate.destinations.v)
         \subseteq DestinationStrings(plan.destinations.v)
    /\ Cardinality(plan.destinations.v) = 3
    /\ Len(CallsOf("CreateDestinations")) = 1
    /\ Cardinality(resp.state.destinations.v) = 3

\* C6 (as stated): after a successful Update every planned destination is
\* saved with its planned comment and type, also when the destination string
\* was already on the service with another comment or type.
C6_CommentAndTypeReconciled ==
    (Done("dl_update") /\ Succeeded) =>
      \A q \in plan.destinations.v :
        q.destination \in DestinationStrings(loc.readDestinations) =>
          \E d \in resp.state.destinations.v :
            /\ d.destination = q.destination
            /\ d.comment = q.comment
            /\ d.type = q.type

----------------------------------------------------------------------------
(* Update of the other resources. *)

IdempotentUpdateOps == {"ntg_update", "ap_update", "pr_update", "gs_update"}

MutatingApis ==
    {"PatchNetworkTunnelGroup", "PutRule", "PutPrivateResource", "PutPolicySetting"}

\* C7: an Update of a tunnel group, access policy, private resource or the
\* global settings whose plan equals the prior state in every attribute
\* sends no PATCH and no PUT and saves a state equal to the prior state.
C7_UpdateIdempotent ==
    (pc = "done" /\ op \in IdempotentUpdateOps /\ plan = tfstate) =>
      /\ \A i \in 1..Len(calls) : calls[i].api \notin MutatingApis
      /\ Succeeded
      /\ resp.state = tfstate

\* Such an Update ran for a private resource that a Read had refreshed.
C7_Witness ==
    /\ Done("pr_update")
    /\ plan = tfstate
    /\ nops >= 2
    /\ calls = <<>>
    /\ resp.state = tfstate

\* The attributes of an access policy in which the plan differs from the
\* prior state.
APDiffers ==
    \/ plan.name # tfstate.name
    \/ plan.action # tfstate.action
    \/ plan.description # tfstate.description
    \/ plan.enabled # tfstate.enabled
    \/ plan.priority # tfstate.priority
    \/ plan.source_ids # tfstate.source_ids
    \/ plan.source_types # tfstate.source_types
    \/ plan.private_destination_types # tfstate.private_destination_types
    \/ plan.public_destination_types # tfstate.public_destination_types
    \/ plan.private_resource_ids # tfstate.private_resource_ids
    \/ plan.destination_list_ids # tfstate.destination_list_ids
    \/ plan.log_level # tfstate.log_level
    \/ plan.client_posture_profile_id # tfstate.client_posture_profile_id
    \/ plan.traffic_type # tfstate.traffic_type

\* C8 (as stated): after a successful access-policy Update whose plan differs
\* from the prior state in any of those attributes a PUT was sent that
\* carries the planned value of each, and the state saved equals the plan.
C8_PlannedAttributesArePut ==
    (Done("ap_update") /\ Succeeded) =>
      /\ APDiffers =>
           /\ Len(CallsOf("PutRule")) = 1
           /\ LET payload == CallsOf("PutRule")[1].req
              IN  /\ payload.ruleName = plan.name
                  /\ payload.ruleAction = plan.action
                  /\ payload.rulePriority = plan.priority.v
                  /\ payload.ruleConditions =
                        buildSourceConditions(plan) \o buildDestinationConditions(plan)
                  /\ payload.ruleSettings = buildRuleSettings(plan)
                  /\ "ruleDescription" \in DOMAIN payload
                  /\ "ruleIsEnabled" \in DOMAIN payload
      /\ resp.state = plan

\* C9 (as stated): after a successful tunnel-group Update the saved state has
\* the planned name, network_cidrs, preshared_key and device_type, and the
\* prior id, region, identifier_prefix and hubs.
C9_SavedStateFollowsPlan ==
    (Done("ntg_update") /\ Succeeded) =>
      /\ resp.state.name = plan.name
      /\ resp.state.network_cidrs = plan.network_cidrs
      /\ resp.state.preshared_key = plan.preshared_key
      /\ resp.state.device_type = plan.device_type
      /\ resp.state.id = tfstate.id
      /\ resp.state.region = tfstate.region
      /\ resp.state.identifier_prefix = tfstate.identifier_prefix
      /\ resp.state.hubs = tfstate.hubs

\* C10 (as stated): after a connector-agent Update whose plan sets enabled or
\* confirmed to v, and whose requests the service all accepted, the saved
\* state holds v and so does the agent, for v = false as for v = true.
C10_PlannedFlagsApplied ==
    (Done("ca_update") /\ remote # Absent
       /\ \A i \in 1..Len(calls) : ~calls[i].rsp.err) =>
      /\ plan.enabled.k = "known" =>
           resp.state.enabled = plan.enabled /\ remote.enabled = plan.enabled.v
      /\ plan.confirmed.k = "known" =>
           resp.state.confirmed = plan.confirmed /\ remote.confirmed = plan.confirmed.v

----------------------------------------------------------------------------
(* Global settings. *)

\* Global-settings Create or Update has run to its end.
GSApplied == pc = "done" /\ op \in {"gs_create", "gs_update"}

\* The value PutState compares the plan with: fetched from the service on
\* Create, taken from the prior state on Update.
GSCurrentDecryption ==
    IF op = "gs_create" THEN calls[1].rsp.settings.decryption
    ELSE tfstate.enable_global_decryption.v

GSCurrentProfile ==
    IF op = "gs_create" THEN calls[1].rsp.settings.profile
    ELSE tfstate.global_ips_profile_id.v

\* The handler that has just run sent a PUT for the named setting.
PutSent(name) ==
    \E i \in 1..Len(calls) :
       calls[i].api = "PutPolicySetting" /\ calls[i].req.settingName = name

\* C11 (as stated): after a successful global-settings Create or Update whose
\* plan gives a setting a known value b, the service holds b for that setting
\* and so does the saved state, and a PUT for the setting was sent exactly
\* when b differs from the current value (fetched on Create, prior state on
\* Update); for enable_global_decryption and for global_ips_profile_id.
C11_PlannedSettingsApplied ==
    (GSApplied /\ Succeeded) =>
      /\ plan.enable_global_decryption.k = "known" =>
           LET b == plan.enable_global_decryption.v
           IN  /\ remote.decryption = b
               /\ resp.state.enable_global_decryption = Known(b)
               /\ PutSent(SETTINGNAME_SSE_GLOBAL_IPS_ENABLED)
                    <=> (b # GSCurrentDecryption)
      /\ plan.global_ips_profile_id.k = "known" =>
           LET b == plan.global_ips_profile_id.v
           IN  /\ remote.profile = b
               /\ resp.state.global_ips_profile_id = Known(b)
               /\ PutSent(SETTINGNAME_UMBRELLA_POSTURE_IPS_PROFILE_ID)
                    <=> (b # GSCurrentProfile)

\* The part of C11 that does not depend on the prior state being current:
\* the saved state holds b and the PUT is sent exactly on a difference.
GSStateAndPutFollowPlan ==
    (GSApplied /\ Succeeded) =>
      /\ plan.enable_global_decryption.k = "known" =>
           LET b == plan.enable_global_decryption.v
           IN  /\ resp.state.enable_global_decryption = Known(b)
               /\ PutSent(SETTINGNAME_SSE_GLOBAL_IPS_ENABLED)
                    <=> (b # GSCurrentDecryption)
      /\ plan.global_ips_profile_id.k = "known" =>
           LET b == plan.global_ips_profile_id.v
           IN  /\ resp.state.global_ips_profile_id = Known(b)
               /\ PutSent(SETTINGNAME_UMBRELLA_POSTURE_IPS_PROFILE_ID)
                    <=> (b # GSCurrentProfile)

\* C12: global-settings Delete sends no request, leaves the settings of the
\* service exactly as they were, and adds no error diagnostic.
C12_DeleteLeavesSettings ==
    [][ (pc = "idle" /\ pc' = "done" /\ op' = "gs_delete") =>
          /\ calls' = <<>>
          /\ remote' = remote
          /\ ~resp'.err /\ ~resp'.panic
      ]_vars

\* Delete ran on settings that Terraform had enabled, and they are still on.
C12_Witness ==
    /\ Done("gs_delete")
    /\ tfstate # Absent
    /\ tfstate.enable_global_decryption = Known(TRUE)
    /\ remote.decryption = TRUE
    /\ calls = <<>>
    /\ Succeeded

----------------------------------------------------------------------------
(* Access policy: type names. *)

\* A state whose three type attributes Read has to fill from the conditions.
APTypesCleared(s) ==
    [s EXCEPT !.source_types = NullSet,
              !.private_destination_types = NullSet,
              !.public_destination_types = NullSet]

\* C13: the type names round-trip.  When Read succeeds on a rule whose
\* conditions are those Create builds for the saved attributes, the
\* source_types it saves, and those it reconstructs from the conditions
\* alone, equal every non-empty set S of valid source types that was saved;
\* likewise private_destination_types = {private_apps} and
\* public_destination_types = {internet}.
C13_TypeNamesRoundTrip ==
    ( /\ Done("ap_read") /\ Succeeded
      /\ resp.state # Absent /\ remote # Absent
      /\ remote.ruleConditions = formatCreateAccessPolicyRequest(tfstate).ruleConditions )
    =>
      LET rebuilt == APReadState(APTypesCleared(tfstate), remote)
          S == tfstate.source_types
      IN  /\ (S.k = "known" /\ S.v # {} /\ S.v \subseteq {DIRECTORY_USERS, NETWORKS}) =>
                /\ resp.state.source_types = S
                /\ rebuilt.source_types = S
          /\ tfstate.private_destination_types = Known({PRIVATE_APPS_SCHEMA}) =>
                /\ resp.state.private_destination_types = Known({PRIVATE_APPS_SCHEMA})
                /\ rebuilt.private_destination_types = Known({PRIVATE_APPS_SCHEMA})
          /\ tfstate.public_destination_types = Known({PUBLIC_INTERNET_SCHEMA}) =>
                /\ resp.state.public_destination_types = Known({PUBLIC_INTERNET_SCHEMA})
                /\ rebuilt.public_destination_types = Known({PUBLIC_INTERNET_SCHEMA})

\* Read rebuilt both source types and the private destination type of a
\* rule from its conditions.
C13_Witness ==
    /\ Done("ap_read") /\ Succeeded
    /\ resp.state # Absent /\ remote # Absent
    /\ remote.ruleConditions = formatCreateAccessPolicyRequest(tfstate).ruleConditions
    /\ tfstate.source_types = Known({DIRECTORY_USERS, NETWORKS})
    /\ tfstate.private_destination_types = Known({PRIVATE_APPS_SCHEMA})
    /\ APReadState(APTypesCleared(tfstate), remote).source_types
         = Known({DIRECTORY_USERS, NETWORKS})
    /\ resp.state.source_types = Known({DIRECTORY_USERS, NETWORKS})

----------------------------------------------------------------------------
(* Private resource: client_reachable_addresses. *)

\* The client-based access entries of the remote resource.
RemoteClientAccess == { a \in remote.accessTypes : a.type = accessTypeClient }

\* C14 (as stated): a successful private-resource Read sets
\* client_reachable_addresses to the reachable addresses of the remote
\* client-based access entry when there is one, and to null only when there
\* is none; so that Read after a Create with access type client and
\* addresses A saves A.
C14_ClientAddressesRoundTrip ==
    (Done("pr_read") /\ Succeeded /\ resp.state # Absent /\ remote # Absent) =>
      /\ \A c \in RemoteClientAccess :
           resp.state.client_reachable_addresses = SetValueFrom(c.reachableAddresses)
      /\ resp.state.client_reachable_addresses = NullSet => RemoteClientAccess = {}
      /\ ( /\ accessTypeClient \in tfstate.access_types.v
           /\ remote.accessTypes = parseAccessTypes(tfstate) )
         => resp.state.client_reachable_addresses = tfstate.client_reachable_addresses

----------------------------------------------------------------------------
(* Provider configuration. *)

InitPV == Init /\ kind = "provider"

NextPV ==
    \/ ProviderConfigure
    \/ Return

SpecPV == InitPV /\ [][NextPV]_vars

\* The value the claim gives a credential: the configured one when it is
\* neither null nor empty, the environment variable otherwise.
ResolvedCredential(configured, fromEnv) ==
    IF configured.k # "null" /\ configured.v # "" THEN configured.v ELSE fromEnv

\* C15: Configure resolves key id and key secret to the configured value when
\* that is non-null and non-empty and to the environment variable otherwise;
\* it publishes the client factory, holding the resolved values, exactly when
\* both are non-empty and neither configured value is unknown, and otherwise
\* adds an error diagnostic and publishes nothing.
C15_ConfigureResolvesCredentials ==
    Done("provider_configure") =>
      LET id == ResolvedCredential(plan.key_id, remote[envKeyID])
          secret == ResolvedCredential(plan.key_secret, remote[envKeySecret])
          publishes == /\ id # "" /\ secret # ""
                       /\ plan.key_id.k # "unknown" /\ plan.key_secret.k # "unknown"
      IN  IF publishes
            THEN /\ ~resp.err /\ loc.diags = {}
                 /\ resp.state # Absent
                 /\ resp.state.KeyId = id
                 /\ resp.state.KeySecret = secret
            ELSE resp.err /\ loc.diags # {} /\ resp.state = Absent

\* The key id came from the environment because the configured one is empty,
\* the key secret from the configuration although the environment has one.
C15_Witness ==
    /\ Done("provider_configure")
    /\ plan.key_id = Known("") /\ remote[envKeyID] = "env-id"
    /\ plan.key_secret = Known("cfg-secret") /\ remote[envKeySecret] = "env-secret"
    /\ resp.state # Absent
    /\ resp.state.KeyId = "env-id" /\ resp.state.KeySecret = "cfg-secret"

----------------------------------------------------------------------------
(* The rate limiter. *)

RLLog == loc.log

RLStarts == { i \in 1..Len(RLLog) : RLLog[i].ev = "start" }
RLEnds == { i \in 1..Len(RLLog) : RLLog[i].ev = "end" }

\* C16 (as stated): at most one test function runs at a time; every test
\* function starts at least minInterval after the previous test function
\* ended, whether that one returned or failed; hence any three starts are
\* at least two intervals apart (no more than 2 starts within a minute).
C16_TestsAreSpaced ==
    kind = "rate_limiter" =>
      /\ Cardinality({ g \in Tests : loc.at[g] = "running" }) <= 1
      /\ \A j \in RLStarts : \A i \in RLEnds :
           i < j => RLLog[j].t - RLLog[i].t >= minWaitTime
      /\ \A i, j, k \in RLStarts :
           (i < j /\ j < k) => RLLog[k].t - RLLog[i].t >= 2 * minWaitTime

\* The same with the failing test functions left out: a test function starts
\* at least minInterval after every test function that returned before it.
RLSpacedAfterReturns ==
    kind = "rate_limiter" =>
      /\ Cardinality({ g \in Tests : loc.at[g] = "running" }) <= 1
      /\ \A j \in RLStarts : \A i \in RLEnds :
           (i < j /\ ~RLLog[i].failed) => RLLog[j].t - RLLog[i].t >= minWaitTime

----------------------------------------------------------------------------
(* The identity lookup. *)

\* Request i and the two after it ask for the same page and are all answered
\* with 429.
ThreeRateLimited(i) ==
    \A j \in i..(i + IdentityAttempts - 1) :
      /\ IdentityOutcome(calls[j].rsp) = "retry"
      /\ calls[j].req.offset = calls[i].req.offset

\* C17 (as stated): when three requests for a page are answered with 429 the
\* lookup gives up: it returns with an error diagnostic and sends no further
\* request.
C17_LookupGivesUpAfterThree ==
    (kind = "identity" /\ op = "id_read") =>
      \A i \in 1..(Len(calls) - IdentityAttempts + 1) :
        ThreeRateLimited(i) =>
          /\ Len(calls) = i + IdentityAttempts - 1
          /\ pc = "done"
          /\ resp.err

\* What does hold: the third 429 for a page adds the error diagnostic.  The
\* lookup then goes on asking for the same page.
IdentityErrorAfterThree ==
    (kind = "identity" /\ op = "id_read") =>
      \A i \in 1..(Len(calls) - IdentityAttempts + 1) :
        ThreeRateLimited(i) => resp.err

----------------------------------------------------------------------------
(* The retry loops are bounded. *)

BoundedRetryOps == {"ap_create", "ap_delete", "pr_create", "ca_create", "ca_read", "ca_delete"}

\* The most calls each retrying operation may make.
CallLimit(o) ==
    CASE o = "ap_create" -> 6
      [] o = "ap_delete" -> 3
      [] o = "pr_create" -> 3
      [] OTHER           -> 6

AllRetryable(o, a) == \A i \in 1..Len(a) : RetryableAnswer(o, a[i].rsp)

\* C18: access-policy Create makes at most 6 AddRule calls, access-policy
\* Delete at most 3 DeleteRule calls, private-resource Create at most 3
\* AddPrivateResource calls, connector-agent Create, Read and Delete at most
\* 6 calls each; and when every call is answered with a retryable answer the
\* operation goes on until it has made that many calls and then ends with an
\* error diagnostic.
C18_RetryLoopsBounded ==
    op \in BoundedRetryOps =>
      LET a == Attempts
      IN  /\ Len(a) <= CallLimit(op)
          /\ (a # <<>> /\ AllRetryable(op, a)) =>
               IF Len(a) < CallLimit(op)
                 THEN pc # "done"
                 ELSE pc = "done" /\ resp.err /\ ~resp.panic

\* Connector-agent Create listed agents six times, was answered with a
\* retryable answer each time (a listing of zero agents among them), and
\* ended with an error diagnostic.
C18_Witness ==
    /\ Done("ca_create")
    /\ Len(Attempts) = 6
    /\ AllRetryable(op, Attempts)
    /\ \E i \in 1..6 : ~Attempts[i].rsp.err
    /\ \E i \in 1..6 : Attempts[i].rsp.err
    /\ resp.err

----------------------------------------------------------------------------
(* What access-policy Create saves. *)

\* C19: access-policy Create saves state exactly when an AddRule attempt
\* succeeded, and the saved id and priority are those of the rule that attempt
\* returned; when the handler ends without a successful attempt no state is
\* saved and there is an error diagnostic; an attempt answered with 409, or
\* with 400 and a body naming invalid ids, adds no diagnostic by itself and,
\* unless it was the last attempt the loop allows, is followed by another.
C19_CreateSavesOnSuccess ==
    op = "ap_create" =>
      LET a == Attempts
          ok(i) == ~a[i].rsp.err
      IN  /\ (resp.state # Absent) <=> (\E i \in 1..Len(a) : ok(i))
          /\ \A i \in 1..Len(a) :
               ok(i) => /\ i = Len(a)
                        /\ pc = "done"
                        /\ resp.state.id = Known(remote.ruleId)
                        /\ resp.state.priority = Known(remote.rulePriority)
          /\ (pc = "done" /\ ~\E i \in 1..Len(a) : ok(i)) =>
               (resp.state = Absent /\ resp.err)
          /\ (AllRetryable(op, a) /\ Len(a) < APCreateAttempts) =>
               (~resp.err /\ pc = "ap_create_try")

\* Create of a rule that names its sources and private resources by id and
\* has priority 2 configured was answered with 409, then with 400 naming
\* invalid ids, then with success, and saved the id and the priority of the
\* rule created.
C19_Witness ==
    /\ Done("ap_create")
    /\ plan.source_ids = Known({101})
    /\ plan.private_resource_ids = Known({201})
    /\ plan.priority = Known(2)
    /\ Len(Attempts) = 3
    /\ CarriesIds(Attempts[1].req)
    /\ Attempts[1].rsp.status = 409
    /\ Attempts[2].rsp.status = 400
    /\ Attempts[2].rsp.body = "invalid_ids"
    /\ ~Attempts[3].rsp.err
    /\ ~resp.err
    /\ resp.state.id = Known(12)
    /\ remote.ruleId = 12
    /\ remote.rulePriority = 2
    /\ resp.state.priority = Known(2)

----------------------------------------------------------------------------
(* Connector-agent Create: what it does with the listing. *)

Listings == CallsOf("ListConnectors")

\* Listing i was answered without error and reported n agents.
Listed(i, n) == ~Listings[i].rsp.err /\ Listings[i].rsp.total = n

\* The handler's PATCH requests were all accepted.
PatchesAccepted ==
    \A i \in 1..Len(calls) : calls[i].api = "PatchConnector" => ~calls[i].rsp.err

\* The planned value of a flag, when the plan gives one, is the value saved
\* and the value the agent has.
FlagSynchronized(field) ==
    plan[field].k = "known" =>
      /\ resp.state[field] = plan[field]
      /\ remote[field] = plan[field].v

\* C20 (as stated): connector-agent Create lists the agents with the
\* instance_id filter, or with the hostname filter when instance_id is null.
\* A listing of 0 agents is followed by another listing unless it was the
\* sixth, and Create fails when no listing found an agent.  A listing of more
\* than 1 agent is the last request and Create fails.  A listing of exactly 1
\* agent is the last listing: the state is loaded from that agent (id,
\* hostname, instance id, status and the two flags), then the planned
\* confirmed and enabled are synchronized, so that, the PATCH requests having
\* been accepted, the agent and the saved state hold the planned value of
\* each flag the plan gives, for false as for true; and the state is saved
\* without an error diagnostic.
C20_CreateSynchronizesPlan ==
    op = "ca_create" =>
      LET n == Len(Listings)
      IN  /\ n <= 6
          /\ \A i \in 1..n :
               /\ Listings[i].req.ok
               /\ Listings[i].req.key =
                    IF plan.instance_id.k # "null" THEN "instanceId" ELSE "hostname"
               /\ Listings[i].req.value =
                    IF plan.instance_id.k # "null" THEN plan.instance_id.v
                    ELSE plan.hostname.v
               /\ calls[i].api = "ListConnectors"
               /\ Listed(i, 0) =>
                    IF i < 6 THEN n > i \/ pc = "ca_create_try"
                    ELSE pc = "done" /\ resp.err /\ resp.state = Absent
               /\ Listed(i, 2) =>
                    /\ i = Len(calls)
                    /\ pc = "done" /\ resp.err /\ resp.state = Absent
               /\ Listed(i, 1) =>
                    /\ i = n
                    /\ pc \in {"ca_sync_confirmed", "ca_sync_enabled", "done"}
                    /\ loc.state.id = Known(Listings[i].rsp.data[1].id)
                    /\ loc.state.hostname = Known(Listings[i].rsp.data[1].hostname)
                    /\ loc.state.instance_id = Known(Listings[i].rsp.data[1].instanceId)
                    /\ loc.state.status = Known(Listings[i].rsp.data[1].status)
                    /\ pc = "done" =>
                         /\ ~resp.err /\ ~resp.panic
                         /\ resp.state = loc.state
                         /\ resp.state.confirmed = Known(remote.confirmed)
                         /\ resp.state.enabled = Known(remote.enabled)
                         /\ PatchesAccepted =>
                              FlagSynchronized("confirmed") /\ FlagSynchronized("enabled")
          /\ (pc = "done" /\ ~\E i \in 1..n : Listed(i, 1)) =>
               /\ resp.err /\ resp.state = Absent
               /\ CallsOf("PatchConnector") = <<>>

\* What Create does with the listing, the flags apart: the listings use the
\* instance_id filter unless instance_id is null; 0 agents is listed again up
\* to six listings, more than 1 agent ends Create with an error, and exactly
\* 1 agent is the last listing, from which the state is loaded; any PATCH of
\* confirmed or enabled comes after that listing, is one towards true, and
\* the flags saved are those the agent has afterwards.
CreateFollowsListing ==
    op = "ca_create" =>
      LET n == Len(Listings)
      IN  /\ n <= 6
          /\ \A i \in 1..n :
               /\ Listings[i].req.ok
               /\ Listings[i].req.key =
                    IF plan.instance_id.k # "null" THEN "instanceId" ELSE "hostname"
               /\ Listings[i].req.value =
                    IF plan.instance_id.k # "null" THEN plan.instance_id.v
                    ELSE plan.hostname.v
               /\ calls[i].api = "ListConnectors"
               /\ Listed(i, 0) =>
                    IF i < 6 THEN n > i \/ pc = "ca_create_try"
                    ELSE pc = "done" /\ resp.err /\ resp.state = Absent
               /\ Listed(i, 2) =>
                    /\ i = Len(calls)
                    /\ pc = "done" /\ resp.err /\ resp.state = Absent
               /\ Listed(i, 1) =>
                    /\ i = n
                    /\ pc \in {"ca_sync_confirmed", "ca_sync_enabled", "done"}
                    /\ loc.state.id = Known(Listings[i].rsp.data[1].id)
                    /\ loc.state.hostname = Known(Listings[i].rsp.data[1].hostname)
                    /\ loc.state.instance_id = Known(Listings[i].rsp.data[1].instanceId)
                    /\ loc.state.status = Known(Listings[i].rsp.data[1].status)
                    /\ pc = "done" =>
                         /\ ~resp.err /\ ~resp.panic
                         /\ resp.state = loc.state
                         /\ resp.state.confirmed = Known(remote.confirmed)
                         /\ resp.state.enabled = Known(remote.enabled)
                         /\ PatchesAccepted =>
                              /\ plan.confirmed = Known(TRUE) => FlagSynchronized("confirmed")
                              /\ plan.enabled = Known(TRUE) => FlagSynchronized("enabled")
          /\ \A j \in 1..Len(calls) :
               calls[j].api = "PatchConnector" =>
                 /\ j > n
                 /\ Listed(n, 1)
                 /\ calls[j].req.value = TRUE
          /\ (pc = "done" /\ ~\E i \in 1..n : Listed(i, 1)) =>
               /\ resp.err /\ resp.state = Absent
               /\ CallsOf("PatchConnector") = <<>>

\* Create found no agent at first and one agent at the second listing, which
\* was not confirmed; it confirmed the agent and saved the state.
CreateConfirmedListedAgent ==
    /\ Done("ca_create")
    /\ Len(Listings) = 2
    /\ Listed(1, 0)
    /\ Listed(2, 1)
    /\ plan.confirmed = Known(TRUE)
    /\ CallsOf("PatchConnector") # <<>>
    /\ ~resp.err
    /\ resp.state.confirmed = Known(TRUE)
    /\ remote.confirmed

\* Create with enabled = false planned found one agent, which was enabled:
\* no PATCH was sent, and the agent and the saved state are still enabled.
CreateLeftPlannedFalseUnapplied ==
    /\ Done("ca_create")
    /\ Listed(Len(Listings), 1)
    /\ plan.enabled = Known(FALSE)
    /\ CallsOf("PatchConnector") = <<>>
    /\ ~resp.err
    /\ resp.state.enabled = Known(TRUE)
    /\ remote.enabled

\* A configuration that gives only hostname reaches Create with instance_id
\* unknown, which is not null: every listing of that Create uses the
\* instance_id filter, with the empty string for the instance id, and none
\* uses the hostname filter.
HostnameOnlyListsByInstanceId ==
    (op = "ca_create" /\ plan.instance_id.k = "unknown") =>
      \A i \in 1..Len(Listings) :
        Listings[i].req.key = "instanceId" /\ Listings[i].req.value = ""

\* Create of a configuration that gives only hostname has listed the agents.
HostnameOnlyListed ==
    /\ op = "ca_create"
    /\ plan.instance_id.k = "unknown"
    /\ plan.hostname = Known("host-1")
    /\ Len(Listings) >= 1

----------------------------------------------------------------------------
(* Connector-agent Synchronize: a PATCH that fails. *)

\* The PATCH requests of the finished handler for one path.
PatchesOf(path) ==
    SelectSeq(calls, LAMBDA c : c.api = "PatchConnector" /\ c.req.path = path)

\* The value a flag of the state has when Synchronize begins: that of the
\* prior state in Update, that loaded from the listed agent in Create.  A
\* PATCH that failed left the agent as it was.
FlagBefore(f) == IF op = "ca_update" THEN tfstate[f] ELSE Known(remote[f])

C21_Field(f, path, other, otherPath) ==
    LET ps == PatchesOf(path)
    IN  /\ Len(ps) <= 1
        /\ (ps # <<>> /\ ~ps[1].rsp.err) => resp.state[f] = plan[f]
        /\ (ps = <<>> \/ ps[1].rsp.err) => resp.state[f] = FlagBefore(f)
        /\ (ps # <<>> /\ ps[1].rsp.err) =>
             /\ ~resp.err /\ ~resp.panic
             /\ (plan[other] = Known(TRUE) /\ FlagBefore(other) = Known(FALSE))
                  => PatchesOf(otherPath) # <<>>

\* C21: in Synchronize the state's confirmed (enabled) value becomes the
\* planned value only when the PATCH of that field succeeded; when it failed
\* the state keeps the value it had, the other field is still processed, and
\* the Update or Create that called Synchronize has no error diagnostic.
C21_FailedPatchKeepsState ==
    ((Done("ca_update") \/ Done("ca_create")) /\ resp.state # Absent) =>
      /\ C21_Field("confirmed", connectorPatchPathConfirmed,
                   "enabled", connectorPatchPathEnabled)
      /\ C21_Field("enabled", connectorPatchPathEnabled,
                   "confirmed", connectorPatchPathConfirmed)

\* Update planned both flags true for an agent that had neither; the PATCH
\* of confirmed failed, the PATCH of enabled succeeded, and Update ended
\* without an error diagnostic.
C21_Witness ==
    /\ Done("ca_update")
    /\ tfstate.confirmed = Known(FALSE) /\ tfstate.enabled = Known(FALSE)
    /\ plan.confirmed = Known(TRUE) /\ plan.enabled = Known(TRUE)
    /\ Len(calls) = 2
    /\ calls[1].rsp.err /\ ~calls[2].rsp.err
    /\ resp.state.confirmed = Known(FALSE)
    /\ resp.state.enabled = Known(TRUE)
    /\ ~resp.err

----------------------------------------------------------------------------
(* Network tunnel group Update: what it PATCHes. *)

Range(q) == { q[i] : i \in 1..Len(q) }

\* The replace operations of the PATCH request Update sent (none when it sent
\* no request).
PatchOps == IF calls = <<>> THEN <<>> ELSE calls[1].req

HasPatch(path) == \E i \in 1..Len(PatchOps) : PatchOps[i].path = path

\* C22 (as stated): compareStringSlicesAsSets says true exactly when the two
\* lists hold the same set of values, repeated elements or not; it is
\* symmetric; and Update replaces /routing exactly when the planned set of
\* CIDRs differs from the set in state.
C22_ComparesAsSets ==
    Done("ntg_update") =>
      LET a == tfstate.network_cidrs
          b == plan.network_cidrs
      IN  /\ compareStringSlicesAsSets(a, b) <=> (Range(a) = Range(b))
          /\ compareStringSlicesAsSets(a, b) <=> compareStringSlicesAsSets(b, a)
          /\ HasPatch("/routing") <=> (Range(a) # Range(b))

\* What holds for lists without repeated elements.
ComparesAsSetsWithoutRepeats ==
    Done("ntg_update") =>
      LET a == tfstate.network_cidrs
          b == plan.network_cidrs
      IN  (Cardinality(Range(a)) = Len(a) /\ Cardinality(Range(b)) = Len(b)) =>
            /\ compareStringSlicesAsSets(a, b) <=> (Range(a) = Range(b))
            /\ compareStringSlicesAsSets(a, b) <=> compareStringSlicesAsSets(b, a)
            /\ HasPatch("/routing") <=> (Range(a) # Range(b))

\* The replace operations the claim asks for: one per changed attribute, in
\* the order name, preshared key, CIDRs, each with the planned value.  The
\* CIDRs have changed when the planned set differs from the set in state.
ExpectedPatchOps ==
    (IF plan.name # tfstate.name THEN <<Patch("/name", plan.name)>> ELSE <<>>)
    \o
    (IF plan.preshared_key # tfstate.preshared_key
       THEN <<Patch("/passphrase", plan.preshared_key)>> ELSE <<>>)
    \o
    (IF Range(plan.network_cidrs) # Range(tfstate.network_cidrs)
       THEN <<Patch("/routing", plan.network_cidrs)>> ELSE <<>>)

PatchFailureKeepsState ==
    (calls # <<>> /\ calls[1].rsp.err) => (resp.err /\ resp.state = tfstate)

\* C23 (as stated): Update sends at most one PATCH request; it holds exactly
\* one replace per changed attribute among name, preshared key and CIDRs, in
\* that order and with the planned value, and none for an unchanged one; when
\* the PATCH fails Update adds an error diagnostic and writes no state.
C23_PatchHoldsTheChanges ==
    Done("ntg_update") =>
      /\ Len(calls) <= 1
      /\ PatchOps = ExpectedPatchOps
      /\ PatchFailureKeepsState

\* What holds when neither list repeats an element.
PatchHoldsTheChangesWithoutRepeats ==
    (/\ Done("ntg_update")
     /\ Cardinality(Range(plan.network_cidrs)) = Len(plan.network_cidrs)
     /\ Cardinality(Range(tfstate.network_cidrs)) = Len(tfstate.network_cidrs)) =>
      /\ Len(calls) <= 1
      /\ PatchOps = ExpectedPatchOps
      /\ PatchFailureKeepsState

\* Whatever the lists: at most one request, and a failed PATCH leaves the
\* state unwritten with an error diagnostic.
PatchAtMostOnce ==
    Done("ntg_update") => (Len(calls) <= 1 /\ PatchFailureKeepsState)

----------------------------------------------------------------------------
(* Destination-list Update: the order of its calls, and a call that fails. *)

\* The place of call i in the order rename, read, create, delete, re-read.
Stage(i) ==
    CASE calls[i].api = "UpdateDestinationLists" -> 1
      [] calls[i].api = "CreateDestinations"     -> 3
      [] calls[i].api = "DeleteDestinations"     -> 4
      [] calls[i].api = "GetDestinations" ->
           IF \E j \in 1..(i - 1) : calls[j].api = "GetDestinations" THEN 5 ELSE 2
      [] OTHER -> 0

DLUpdateInOrder ==
    /\ \A i \in 1..Len(calls) : Stage(i) > 0
    /\ \A i, j \in 1..Len(calls) : i < j => Stage(i) < Stage(j)
    /\ (\E i \in 1..Len(calls) : Stage(i) = 1) <=> ~ValueEqual(plan.name, tfstate.name)
    /\ \A i \in 1..Len(calls) : Stage(i) > 2 => \E j \in 1..(i - 1) : Stage(j) = 2

\* What the calls that succeeded changed on the service is still there.
DLEarlierChangesRemain ==
    \A i \in 1..Len(calls) :
      ~calls[i].rsp.err =>
        /\ Stage(i) = 1 => remote.name = plan.name.v
        /\ Stage(i) = 3 =>
             \A m \in calls[i].req :
               \E d \in remote.destinations : d.destination = m.destination
        /\ Stage(i) = 4 =>
             \A d \in remote.destinations : Atoi(d.id) \notin calls[i].req

\* C24 (as stated): Update makes its calls in the order rename (only when the
\* name changed), read, create, delete, re-read; a call that fails is the
\* last call, Update then has an error diagnostic and has written no state,
\* and what the earlier calls changed on the service remains.
C24_UpdateStopsAtFailure ==
    (op = "dl_update" /\ pc = "done") =>
      /\ DLUpdateInOrder
      /\ DLEarlierChangesRemain
      /\ \A i \in 1..Len(calls) :
           calls[i].rsp.err =>
             /\ i = Len(calls)
             /\ resp.err /\ ~resp.panic
             /\ resp.state = tfstate

\* What holds instead: a read of the destinations that fails without an HTTP
\* response crashes the provider; every other failed call ends Update with
\* an error diagnostic; the state is written in neither case.
DLUpdateStopsOrCrashes ==
    (op = "dl_update" /\ pc = "done") =>
      /\ DLUpdateInOrder
      /\ DLEarlierChangesRemain
      /\ \A i \in 1..Len(calls) :
           calls[i].rsp.err =>
             /\ i = Len(calls)
             /\ resp.state = tfstate
             /\ IF calls[i].api = "GetDestinations" /\ NoResponse(calls[i].rsp)
                  THEN resp.panic /\ ~resp.err
                  ELSE resp.err /\ ~resp.panic

----------------------------------------------------------------------------
(* Destination-list Read. *)

\* GetDestinationList failed and its body holds the not-found marker.
DLAnsweredNotFound ==
    /\ calls[1].rsp.err
    /\ ~NoResponse(calls[1].rsp)
    /\ Contains(calls[1].rsp.body, destinationListNotFoundError)

DLReadSavesWhatTheApiReturned ==
    (~calls[1].rsp.err /\ Succeeded) =>
      /\ resp.state.name = Known(remote.name)
      /\ resp.state.destinations = Known(GetDestinations(remote))
      /\ resp.state.id = tfstate.id

\* C25 (as stated): Read removes the resource from state exactly when
\* GetDestinationList failed with a body holding the not-found marker; after
\* any other failed call, one without an HTTP response included, Read has an
\* error diagnostic and the state is as it was; after a successful call the
\* saved name and destinations are those the API returned.
C25_ReadRemovesOnlyOnNotFound ==
    Done("dl_read") =>
      /\ (resp.state = Absent) <=> DLAnsweredNotFound
      /\ (calls[1].rsp.err /\ ~DLAnsweredNotFound) =>
           (resp.err /\ ~resp.panic /\ resp.state = tfstate)
      /\ DLReadSavesWhatTheApiReturned

\* What holds instead: the same, except that a call without an HTTP response
\* crashes the provider.
DLReadRemovesOrCrashes ==
    Done("dl_read") =>
      /\ (resp.state = Absent) <=> DLAnsweredNotFound
      /\ (calls[1].rsp.err /\ ~DLAnsweredNotFound) =>
           /\ resp.state = tfstate
           /\ IF NoResponse(calls[1].rsp) THEN resp.panic /\ ~resp.err
              ELSE resp.err /\ ~resp.panic
      /\ DLReadSavesWhatTheApiReturned

----------------------------------------------------------------------------
(* Private-resource Update: when it sends its PUT. *)

PRConfigurable ==
    {"name", "description", "access_types", "addresses", "certificate_id",
     "client_reachable_addresses"}

\* The configurable attributes in which the plan differs from the prior state.
PRDiffers == { a \in PRConfigurable : ~ValueEqual(plan[a], tfstate[a]) }

\* C26 (as stated): Update sends a PUT exactly when the plan differs from the
\* prior state in a configurable attribute, and the state a successful Update
\* saves is the plan, which was then sent to the API.
C26_PutWhenPlanDiffers ==
    Done("pr_update") =>
      /\ (CallsOf("PutPrivateResource") # <<>>) <=> (PRDiffers # {})
      /\ Succeeded => resp.state = plan
      /\ (Succeeded /\ PRDiffers # {}) =>
           calls = <<Call("PutPrivateResource",
                          formatCreatePrivateResourceRequest(plan), calls[1].rsp)>>

\* What holds instead: the same for the five attributes Update compares.
PutWhenComparedAttributeDiffers ==
    Done("pr_update") =>
      LET differs == PRDiffers \ {"client_reachable_addresses"}
      IN  /\ (CallsOf("PutPrivateResource") # <<>>) <=> (differs # {})
          /\ Succeeded => resp.state = plan
          /\ (Succeeded /\ differs # {}) =>
               calls = <<Call("PutPrivateResource",
                              formatCreatePrivateResourceRequest(plan), calls[1].rsp)>>

----------------------------------------------------------------------------
(* The identity lookup: its pages. *)

\* The requests of the lookup that were answered with a page.
PagesReceived == SelectSeq(calls, LAMBDA c : ~c.rsp.err)

\* How many of the requests before request i were answered with a page.
ReceivedBefore(i) == Cardinality({ j \in 1..(i - 1) : ~calls[j].rsp.err })

\* C27: every request asks for 100 entries at the offset 100 times the
\* number of pages received so far, so the pages are asked for at 0, 100,
\* 200, ... and a request answered with 429 is repeated at the same offset;
\* a page of fewer than 100 entries ends the lookup and a full page does not;
\* the identities collected are the non-empty pages received, in order, so
\* a lookup that ends without error returns each matching identity once.
C27_PagesInOrder ==
    op = "id_read" =>
      /\ \A i \in 1..Len(calls) :
           /\ calls[i].req.limit = 100
           /\ calls[i].req.offset = 100 * ReceivedBefore(i)
           /\ ~calls[i].rsp.err =>
                LET n == IdentityPage(remote.total, calls[i].req.offset).len
                IN  IF n < 100 THEN i = Len(calls) /\ pc = "done"
                    ELSE i < Len(calls) \/ pc = "id_try"
      /\ LET got == loc.identities
         IN  /\ Len(got) <= Len(PagesReceived)
             /\ \A k \in 1..Min(Len(got), Len(PagesReceived)) :
                  /\ got[k] = IdentityPage(remote.total, PagesReceived[k].req.offset)
                  /\ got[k].from = 100 * (k - 1) + 1
                  /\ got[k].len > 0
             /\ (pc = "done" /\ ~resp.err) =>
                  /\ resp.state.identities = got
                  /\ \A x \in 1..remote.total :
                       Cardinality({ k \in 1..Len(got) :
                                       got[k].from <= x /\ x < got[k].from + got[k].len }) = 1

\* 150 identities match; the request for the second page was answered with
\* 429 once and then with the page; the lookup returned both pages.
C27_Witness ==
    /\ Done("id_read")
    /\ remote.total = 150
    /\ Len(calls) = 3
    /\ ~calls[1].rsp.err
    /\ calls[2].rsp.err /\ calls[2].rsp.status = 429
    /\ ~calls[3].rsp.err
    /\ ~resp.err
    /\ resp.state.identities = <<[from |-> 1, len |-> 100], [from |-> 101, len |-> 50]>>

----------------------------------------------------------------------------
(* Global settings: the order of the PUTs, failure, and the saved id. *)

GSOps == {"gs_create", "gs_read", "gs_update"}

Puts == CallsOf("PutPolicySetting")

\* C28: PutState sends the PUT of the decryption setting before that of the
\* IPS profile, each at most once; when the decryption PUT fails no PUT for
\* the IPS profile is sent; when a PUT fails Create and Update have an error
\* diagnostic and write no state; and the state a successful Create, Read or
\* Update saves has the id "global-settings".
C28_PutOrderAndSavedId ==
    (pc = "done" /\ op \in GSOps) =>
      /\ Len(Puts) <= 2
      /\ \A i \in 1..Len(Puts) :
           /\ Puts[i].req.settingName = SETTINGNAME_SSE_GLOBAL_IPS_ENABLED => i = 1
           /\ Puts[i].req.settingName = SETTINGNAME_UMBRELLA_POSTURE_IPS_PROFILE_ID =>
                i = Len(Puts)
           /\ Puts[i].rsp.err =>
                /\ i = Len(Puts)
                /\ resp.err
                /\ resp.state = tfstate
      /\ (Len(Puts) = 2) =>
           Puts[1].req.settingName # Puts[2].req.settingName
      /\ Succeeded => resp.state.id = Known("global-settings")

\* Update planned a change of both settings; the PUT of the decryption
\* setting failed, no other request was sent, and the state was not written.
C28_Witness ==
    /\ Done("gs_update")
    /\ plan.enable_global_decryption.v # tfstate.enable_global_decryption.v
    /\ plan.global_ips_profile_id.v # tfstate.global_ips_profile_id.v
    /\ Len(calls) = 1
    /\ calls[1].req.settingName = SETTINGNAME_SSE_GLOBAL_IPS_ENABLED
    /\ calls[1].rsp.err
    /\ resp.err
    /\ resp.state = tfstate

----------------------------------------------------------------------------
(* Access-policy Read: the attributes derived from the rule's conditions. *)

\* The condition of the remote rule with the given attribute name, if any.
RemoteConds(a) ==
    { remote.ruleConditions[i].val :
        i \in { j \in 1..Len(remote.ruleConditions) : remote.ruleConditions[j].attr = a } }

\* The state attribute holds nothing.
NullOrEmpty(v) == v.k = "null" \/ v.v = {}

\* The attribute attr of the saved state reflects the conditions named cond
\* of the remote rule, whose values map to state values by f.
Reflects(attr, cond, f(_)) ==
    IF RemoteConds(cond) = {}
      THEN NullOrEmpty(resp.state[attr])
      ELSE \E val \in RemoteConds(cond) : resp.state[attr] = SetValueFrom(f(val))

SameIds(val) == val

SourceTypeNames(val) ==
    { n \in {DIRECTORY_USERS, NETWORKS} :
        (IF n = DIRECTORY_USERS THEN DIRECTORY_USERS_TYPE_ID ELSE NETWORKS_TYPE_ID) \in val }

PrivateTypeNames(val) == IF PRIVATE_APPS_TYPE \in val THEN {PRIVATE_APPS_SCHEMA} ELSE {}

PublicTypeNames(val) == IF val = TRUE THEN {PUBLIC_INTERNET_SCHEMA} ELSE {}

ReadSucceeded == Done("ap_read") /\ Succeeded /\ resp.state # Absent /\ remote # Absent

\* C29 (as stated): after a successful Read every condition-derived attribute
\* of the saved state reflects the remote rule: it holds the values of the
\* matching condition when the rule has one and is null or empty when the
\* rule has none.
C29_ReadReflectsRemoteConditions ==
    ReadSucceeded =>
      /\ Reflects("source_ids", "umbrella.source.identity_ids", SameIds)
      /\ Reflects("source_types", "umbrella.source.identity_type_ids", SourceTypeNames)
      /\ Reflects("private_resource_ids", "umbrella.destination.private_resource_ids", SameIds)
      /\ Reflects("destination_list_ids", "umbrella.destination.destination_list_ids", SameIds)
      /\ Reflects("private_destination_types",
                  "umbrella.destination.private_resource_types", PrivateTypeNames)
      /\ Reflects("public_destination_types", "umbrella.destination.all", PublicTypeNames)

\* What holds: the attributes whose condition the rule has reflect it; an
\* attribute whose condition the rule lacks keeps the value of the prior
\* state.
ReflectsOrKeeps(attr, cond, f(_)) ==
    IF RemoteConds(cond) = {}
      THEN resp.state[attr] = tfstate[attr]
      ELSE \E val \in RemoteConds(cond) : resp.state[attr] = SetValueFrom(f(val))

ReadKeepsWhatTheRuleLacks ==
    ReadSucceeded =>
      /\ ReflectsOrKeeps("source_ids", "umbrella.source.identity_ids", SameIds)
      /\ ReflectsOrKeeps("source_types", "umbrella.source.identity_type_ids", SourceTypeNames)
      /\ ReflectsOrKeeps("private_resource_ids",
                         "umbrella.destination.private_resource_ids", SameIds)
      /\ ReflectsOrKeeps("destination_list_ids",
                         "umbrella.destination.destination_list_ids", SameIds)
      /\ ReflectsOrKeeps("private_destination_types",
                         "umbrella.destination.private_resource_types", PrivateTypeNames)
      /\ ReflectsOrKeeps("public_destination_types", "umbrella.destination.all",
                         PublicTypeNames)

----------------------------------------------------------------------------
(* Access-policy requests and the priority. *)

\* The plan differs from the prior state in an attribute other than action
\* (a change of action alone is the subject of C8).
APDiffersBesidesAction ==
    [plan EXCEPT !.action = tfstate.action] # tfstate

\* Every AddRule request of Create carries a priority exactly when the
\* planned priority is not zero, and then the planned one.
CreateCarriesPriority ==
    op = "ap_create" =>
      \A i \in 1..Len(calls) :
        /\ (calls[i].req.rulePriority.k = "known") <=> (plan.priority.v # 0)
        /\ calls[i].req.rulePriority.k = "known" =>
             calls[i].req.rulePriority.v = plan.priority.v

\* C30 (as stated): the request built from a plan carries a priority exactly
\* when the planned priority is not zero; and Update sends its PUT for every
\* plan that differs from the state, a plan with priority 0 included, with
\* the planned priority in the PUT; it never stops before the PUT for want of
\* a priority.
C30_UpdateSendsPutWithPriority ==
    /\ CreateCarriesPriority
    /\ (Done("ap_update") /\ APDiffersBesidesAction) =>
         /\ ~resp.panic
         /\ Len(calls) = 1
         /\ calls[1].api = "PutRule"
         /\ calls[1].req.rulePriority = plan.priority.v

\* What holds instead: the same for plans whose priority is not zero; with
\* priority zero Update crashes before it sends anything.
UpdateSendsPutUnlessPriorityZero ==
    /\ CreateCarriesPriority
    /\ (Done("ap_update") /\ APDiffersBesidesAction) =>
         IF plan.priority.v # 0
           THEN /\ ~resp.panic
                /\ Len(calls) = 1
                /\ calls[1].api = "PutRule"
                /\ calls[1].req.rulePriority = plan.priority.v
           ELSE resp.panic /\ calls = <<>> /\ resp.state = tfstate

====
